---- MODULE Spec2Model ----
(***************************************************************************)
(* Onboarding tour theme component (discourse-onboarding-tour).            *)
(*                                                                         *)
(* The model covers the trigger controller (initialize / onPageChange),    *)
(* the completion gate (shouldShowTour, hasCompletedTour,                  *)
(* markTourCompleted over the completion store), and the revisions of the *)
(* initializer found in the sources:                                      *)
(*   variant "drive"     - initializers/onboarding-tour.js: the step list  *)
(*                         is resolved once by buildTourSteps and handed   *)
(*                         to the overlay library (driverObj.drive()).     *)
(*   variant "highlight" - unnamed/part_001 (first file): showStep /       *)
(*                         displayStep drive the overlay one step at a     *)
(*                         time (driverObj.highlight(step)).               *)
(*   variant "local"     - unnamed/part_001 (second file): the flags live  *)
(*                         in localStorage behind try/catch, the welcome   *)
(*                         and done texts come from the settings, and the  *)
(*                         list goes to driverObj.drive().                 *)
(* Indices are 0-based as in the code; the i-th step is stepConfigs[i+1].  *)
(***************************************************************************)
EXTENDS Integers, Sequences, FiniteSets, TLC

VARIABLES
    \* ---- environment of one visitor, fixed by Init ----
    variant,          \* which revision is loaded: "drive" | "highlight" | "local"
    settings,         \* the raw theme settings (ambient global `settings`)
    locale,           \* I18n.currentLocale(): its parts between hyphens, <<>> if none
    currentUser,      \* api.getCurrentUser(): {} (null) or {[trust_level |-> ..]}
    innerWidth,       \* window.innerWidth
    driverLoaded,     \* typeof window.driver !== "undefined"
    stepsConfig,      \* result of parseStepsConfig for the visitor class
    dom,              \* the page's elements outside the side panel, in document order
    toggles,          \* how many of the side panel toggle selectors match an element
    cookiesEnabled,   \* the browser accepts writes to the completion store
    storeThrows,      \* localStorage is unavailable: reading or writing it raises
    routes,           \* routes the host router reports to onPageChange
    \* ---- persisted across page loads ----
    cookies,          \* document.cookie as a map name -> value
    \* ---- state of one page load ----
    url,              \* route of the last navigation event
    tourTriggered,    \* closure variable of initialize
    startsScheduled,  \* number of setTimeout(startTour) calls made
    startDelay,       \* delay handed to the last setTimeout(startTour), {} if none
    uncaught,         \* an exception has escaped the navigation handler
    startsFired,      \* number of those callbacks that have run
    stepConfigs,      \* startTour: stepConfigs (highlight) / steps (drive)
    currentStepIndex, \* startTour: currentStepIndex
    driverObj,        \* "null" | "live" | "destroyed"
    shown,            \* the step handed to highlight()/drive(), while live
    settleTimers,     \* indices with a pending setTimeout(displayStep, 500)
    sidebarOpen,      \* the side panel is visible
    overlays,         \* overlay instances highlighted and not yet destroyed
    toggleClicks,     \* clicks made on the side panel toggle
    runState,         \* "Idle" | "Running" | "Finished" | "Aborted"
    \* ---- history of the current request (what the console.log lines tell) ----
    reqDir,           \* "none" | "start" | "next" | "prev"
    reqFrom,          \* index the request was made from
    skipped           \* indices logged "Skipping step - element not found"

envVars == <<variant, settings, locale, currentUser, innerWidth, driverLoaded,
             stepsConfig, dom, toggles, cookiesEnabled, storeThrows, routes>>
triggerVars == <<tourTriggered, startsScheduled, startDelay, uncaught>>
seqVars == <<stepConfigs, currentStepIndex, driverObj, shown, settleTimers,
             sidebarOpen, overlays, toggleClicks, runState, reqDir, reqFrom,
             skipped>>
vars == <<envVars, cookies, url, triggerVars, startsFired, seqVars>>

----------------------------------------------------------------------------
(* Bounds of the model *)

MaxSteps == 2        \* longest authored step list
MaxTrust == 3        \* largest trust level / ceiling enumerated
MaxToggles == 2      \* most toggle selectors matching an element at once

----------------------------------------------------------------------------
(* Optional values: {} is null/undefined, {v} is the value v *)

None == {}
Some(v) == {v}
TheVal(o) == CHOOSE v \in o : TRUE

----------------------------------------------------------------------------
(* Constants of the program *)

STORAGE_KEY_ANON == "discourse_tour_anonymous_completed"
STORAGE_KEY_LOGGED_IN == "discourse_tour_logged_in_completed"
StorageKeys == {STORAGE_KEY_ANON, STORAGE_KEY_LOGGED_IN}
MobileBreakpoint == 768
DefaultTrustCeiling == 4
DefaultDelayMs == 1500
NoCookie == "null"

----------------------------------------------------------------------------
(* Localized text.  A text field of a step is absent, a plain string, or an  *)
(* object mapping language tags to strings, its entries kept in insertion   *)
(* order.  A tag, like the locale, is the list of its parts between          *)
(* hyphens: "pt-BR" is <<"pt", "BR">>.                                       *)

NoText == [kind |-> "absent", text |-> "", entries |-> <<>>]
Str(s) == [kind |-> "string", text |-> s, entries |-> <<>>]
TextMap(es) == [kind |-> "object", text |-> "", entries |-> es]
Entry(tag, s) == [tag |-> tag, text |-> s]

\* textObj[tag]: the string stored under tag, "" (undefined) when there is none
textAt(entries, tag) ==
    LET hits == {k \in 1..Len(entries) : entries[k].tag = tag}
    IN  IF hits = {} THEN "" ELSE entries[CHOOSE k \in hits : TRUE].text

\* Object.values(textObj).find(v => v): the first non-empty string, "" if none
firstAvailable(entries) ==
    LET hits == {k \in 1..Len(entries) : entries[k].text # ""}
    IN  IF hits = {} THEN ""
        ELSE entries[CHOOSE k \in hits : \A j \in hits : k <= j].text

\* faulty variant: no fallback to the first available entry
getLocalizedText_NoFirstAvailable(textObj, currentLocale) ==
    IF textObj.kind = "absent" THEN ""
    ELSE IF textObj.kind = "string" THEN textObj.text
    ELSE LET loc == IF currentLocale = <<>> THEN <<"en">> ELSE currentLocale
             lang == <<Head(loc)>>
         IN  IF textAt(textObj.entries, lang) # ""
             THEN textAt(textObj.entries, lang)
             ELSE textAt(textObj.entries, <<"en">>)

getLocalizedText(textObj, currentLocale) ==
    IF textObj.kind = "absent" THEN ""
    ELSE IF textObj.kind = "string" THEN textObj.text
    ELSE LET loc == IF currentLocale = <<>> THEN <<"en">> ELSE currentLocale
             lang == <<Head(loc)>>
         IN  IF textAt(textObj.entries, lang) # ""
             THEN textAt(textObj.entries, lang)
             ELSE IF textAt(textObj.entries, <<"en">>) # ""
             THEN textAt(textObj.entries, <<"en">>)
             ELSE firstAvailable(textObj.entries)

----------------------------------------------------------------------------
(* Step configuration text.  The JSON text of a setting is the list of its   *)
(* tokens; the token of an object literal carries the step it spells out.    *)

\* {} : an object with no property set
EmptyObject ==
    [selector |-> <<>>, device |-> None, openSidebar |-> FALSE, title |-> NoText]

Tok(t) == [t |-> t, v |-> EmptyObject]
ObjTok(step) == [t |-> "object", v |-> step]

\* the text "[]"
EmptyArrayText == <<Tok("["), Tok("]")>>

\* JSON values
JsonNull == [kind |-> "null", items |-> <<>>, obj |-> EmptyObject]
JsonNumber == [kind |-> "number", items |-> <<>>, obj |-> EmptyObject]
JsonObject(o) == [kind |-> "object", items |-> <<>>, obj |-> o]
JsonArray(items) == [kind |-> "array", items |-> items, obj |-> EmptyObject]

SyntaxError == [ok |-> FALSE, val |-> JsonNull, rest |-> <<>>]
Parsed(v, rest) == [ok |-> TRUE, val |-> v, rest |-> rest]

RECURSIVE ParseValue(_)
RECURSIVE ParseElements(_, _)

\* one JSON value at the head of the token list
ParseValue(ts) ==
    IF ts = <<>> THEN SyntaxError
    ELSE LET h == Head(ts).t
         IN  IF h = "null" THEN Parsed(JsonNull, Tail(ts))
             ELSE IF h = "number" THEN Parsed(JsonNumber, Tail(ts))
             ELSE IF h = "object" THEN Parsed(JsonObject(Head(ts).v), Tail(ts))
             ELSE IF h = "["
             THEN IF Len(ts) >= 2 /\ ts[2].t = "]"
                  THEN Parsed(JsonArray(<<>>), SubSeq(ts, 3, Len(ts)))
                  ELSE ParseElements(Tail(ts), <<>>)
             ELSE SyntaxError

\* the elements of an array after "[", up to and including "]"
ParseElements(ts, items) ==
    LET r == ParseValue(ts)
    IN  IF ~r.ok \/ r.rest = <<>> THEN SyntaxError
        ELSE IF Head(r.rest).t = ","
        THEN ParseElements(Tail(r.rest), Append(items, r.val))
        ELSE IF Head(r.rest).t = "]"
        THEN Parsed(JsonArray(Append(items, r.val)), Tail(r.rest))
        ELSE SyntaxError

\* JSON.parse: white space is skipped, the whole text must be one value
JSONParse(text) ==
    LET ts == SelectSeq(text, LAMBDA tok : tok.t # "space")
        r == ParseValue(ts)
    IN  IF r.ok /\ r.rest = <<>> THEN r ELSE SyntaxError

\* the steps downstream code reads off the parsed list
StepsOf(items) == [k \in 1..Len(items) |-> items[k].obj]

\* faulty variant: a list that parses to [] is used as it is
parseStepsConfig_KeepsEmpty(jsonString, defaults) ==
    IF jsonString = <<>> \/ jsonString = EmptyArrayText THEN defaults
    ELSE LET parsed == JSONParse(jsonString)
         IN  IF ~parsed.ok THEN defaults
             ELSE IF parsed.val.kind = "array"
             THEN StepsOf(parsed.val.items)
             ELSE defaults

parseStepsConfig(jsonString, defaults) ==
    IF jsonString = <<>> \/ jsonString = EmptyArrayText THEN defaults
    ELSE LET parsed == JSONParse(jsonString)
         IN  IF ~parsed.ok THEN defaults
             ELSE IF parsed.val.kind = "array" /\ Len(parsed.val.items) > 0
             THEN StepsOf(parsed.val.items)
             ELSE defaults

DefaultStep(selector, title) ==
    [selector |-> selector, device |-> None, openSidebar |-> FALSE,
     title |-> Str(title)]

DEFAULT_STEPS_ANONYMOUS ==
    << DefaultStep(<<"#search-button">>, "Search"),
       DefaultStep(<<".topic-list", ".latest-topic-list">>, "Discussions"),
       DefaultStep(<<".sign-up-button", ".btn-primary.sign-up">>, "Join Us") >>

DEFAULT_STEPS_LOGGED_IN ==
    << DefaultStep(<<".header-sidebar-toggle", "#toggle-hamburger-menu">>, "Navigation"),
       DefaultStep(<<"#search-button">>, "Search"),
       DefaultStep(<<".header-dropdown-toggle.current-user">>, "Your Profile"),
       DefaultStep(<<".topic-list", ".latest-topic-list">>, "Discussions"),
       DefaultStep(<<"#create-topic">>, "New Topic") >>

----------------------------------------------------------------------------
(* Completion gate over the cookie store *)

\* faulty variant: both visitor classes share one key
getStorageKey_OneKey(isLoggedIn) == STORAGE_KEY_ANON

getStorageKey(isLoggedIn) ==
    IF isLoggedIn THEN STORAGE_KEY_LOGGED_IN ELSE STORAGE_KEY_ANON

\* document.cookie.match(...) : the value stored under name, or null
getCookie(jar, name) == jar[name]

\* document.cookie = "name=value; ..." : ignored when cookies are blocked
setCookie(jar, name, value, enabled) ==
    IF enabled THEN [jar EXCEPT ![name] = value] ELSE jar

hasCompletedTour(jar, isLoggedIn) ==
    getCookie(jar, getStorageKey(isLoggedIn)) = "true"

\* faulty variant: the write flips the flag instead of setting it
markTourCompleted_Toggle(jar, isLoggedIn, enabled) ==
    LET key == getStorageKey(isLoggedIn)
    IN  setCookie(jar, key, IF jar[key] = "true" THEN NoCookie ELSE "true", enabled)

\* faulty variant: the write goes to the other class's key
markTourCompleted_OtherKey(jar, isLoggedIn, enabled) ==
    setCookie(jar, getStorageKey(~isLoggedIn), "true", enabled)

markTourCompleted(jar, isLoggedIn, enabled) ==
    setCookie(jar, getStorageKey(isLoggedIn), "true", enabled)

getThemeSettings(s) ==
    [ tour_enabled |-> s.tour_enabled # Some(FALSE),
      tour_delay_ms |-> IF s.tour_delay_ms = None \/ TheVal(s.tour_delay_ms) = 0
                        THEN DefaultDelayMs
                        ELSE TheVal(s.tour_delay_ms),
      target_trust_level |-> IF s.target_trust_level = None
                             THEN DefaultTrustCeiling
                             ELSE TheVal(s.target_trust_level),
      tour_steps_anonymous |-> IF s.tour_steps_anonymous = <<>>
                               THEN EmptyArrayText ELSE s.tour_steps_anonymous,
      tour_steps_logged_in |-> IF s.tour_steps_logged_in = <<>>
                               THEN EmptyArrayText ELSE s.tour_steps_logged_in ]

\* currentUser.trust_level || 0
trustLevelOf(user) ==
    IF user.trust_level = None THEN 0 ELSE TheVal(user.trust_level)

\* faulty variant: a trust level equal to the ceiling is denied
shouldShowTour_Strict(user, themeSettings, isLoggedIn, jar) ==
    IF ~themeSettings.tour_enabled THEN FALSE
    ELSE IF hasCompletedTour(jar, isLoggedIn) THEN FALSE
    ELSE IF isLoggedIn /\ user # None
            /\ trustLevelOf(TheVal(user)) >= themeSettings.target_trust_level
         THEN FALSE
    ELSE TRUE

shouldShowTour(user, themeSettings, isLoggedIn, jar) ==
    IF ~themeSettings.tour_enabled THEN FALSE
    ELSE IF hasCompletedTour(jar, isLoggedIn) THEN FALSE
    ELSE IF isLoggedIn /\ user # None
            /\ trustLevelOf(TheVal(user)) > themeSettings.target_trust_level
         THEN FALSE
    ELSE TRUE

----------------------------------------------------------------------------
(* The revision that keeps the flags in localStorage and reads the welcome   *)
(* and done texts from the settings (variant "local")                        *)

\* the outcome of a call: the value returned, or an exception raised
Returned(v) == [raised |-> FALSE, value |-> v]
Raised == [raised |-> TRUE, value |-> FALSE]

\* localStorage.getItem(key) === "true"; raises when storage is unavailable
getItemIsTrue(store, key, throws) ==
    IF throws THEN Raised ELSE Returned(store[key] = "true")

\* faulty variant: the read is not wrapped in try/catch
hasCompletedTourLocal_NoCatch(store, isLoggedIn, throws) ==
    getItemIsTrue(store, getStorageKey(isLoggedIn), throws)

\* try { return getItem(..) === "true" } catch (e) { return false }
hasCompletedTourLocal(store, isLoggedIn, throws) ==
    LET read == getItemIsTrue(store, getStorageKey(isLoggedIn), throws)
    IN  IF read.raised THEN Returned(FALSE) ELSE read

\* try { setItem(key, "true") } catch (e) { }: a raised exception is swallowed
markTourCompletedLocal(store, isLoggedIn, throws) ==
    IF throws THEN store
    ELSE [store EXCEPT ![getStorageKey(isLoggedIn)] = "true"]

shouldShowTourLocal(user, themeSettings, isLoggedIn, store, throws) ==
    IF ~themeSettings.tour_enabled THEN Returned(FALSE)
    ELSE LET completed == hasCompletedTourLocal(store, isLoggedIn, throws)
         IN  IF completed.raised THEN Raised
             ELSE IF completed.value THEN Returned(FALSE)
             ELSE IF isLoggedIn /\ user # None
                     /\ trustLevelOf(TheVal(user)) > themeSettings.target_trust_level
                  THEN Returned(FALSE)
             ELSE Returned(TRUE)

\* value || fallback on strings
OrElse(value, fallback) == IF value = "" THEN fallback ELSE value

getThemeSettingsLocal(s) ==
    [ tour_enabled |-> s.tour_enabled # Some(FALSE),
      tour_delay_ms |-> IF s.tour_delay_ms = None \/ TheVal(s.tour_delay_ms) = 0
                        THEN DefaultDelayMs
                        ELSE TheVal(s.tour_delay_ms),
      target_trust_level |-> IF s.target_trust_level = None
                             THEN DefaultTrustCeiling
                             ELSE TheVal(s.target_trust_level),
      tour_steps_anonymous |-> IF s.tour_steps_anonymous = <<>>
                               THEN EmptyArrayText ELSE s.tour_steps_anonymous,
      tour_steps_logged_in |-> IF s.tour_steps_logged_in = <<>>
                               THEN EmptyArrayText ELSE s.tour_steps_logged_in,
      welcome_title_anonymous |-> OrElse(s.welcome_title_anonymous, "Welcome!"),
      welcome_description_anonymous |->
          OrElse(s.welcome_description_anonymous, "Let us show you around."),
      done_title_anonymous |-> OrElse(s.done_title_anonymous, "You're All Set!"),
      done_description_anonymous |->
          OrElse(s.done_description_anonymous, "Create an account to join!"),
      welcome_title_logged_in |-> OrElse(s.welcome_title_logged_in, "Welcome!"),
      welcome_description_logged_in |->
          OrElse(s.welcome_description_logged_in, "Let us show you around."),
      done_title_logged_in |-> OrElse(s.done_title_logged_in, "You're All Set!"),
      done_description_logged_in |->
          OrElse(s.done_description_logged_in, "Explore and enjoy!") ]

----------------------------------------------------------------------------
(* Landing-page allow-list.  A route is the sequence of its tokens: "/" and  *)
(* the words between slashes, so "/latest/" is <<"/", "latest", "/">>.       *)

HomeWords == <<"latest", "top", "categories", "new", "unread">>

\* /^\/$/
matchesRoot(u) == u = <<"/">>

\* /^\/word\/?$/
matchesListing(word, u) ==
    \/ u = <<"/", word>>
    \/ u = <<"/", word, "/">>

\* faulty variant: the pattern lacks its end anchor, /^\/word/
matchesListing_Unanchored(word, u) ==
    /\ Len(u) >= 2
    /\ SubSeq(u, 1, 2) = <<"/", word>>

isHomePage_Unanchored(u) ==
    \/ matchesRoot(u)
    \/ \E k \in 1..Len(HomeWords) : matchesListing_Unanchored(HomeWords[k], u)

isHomePage(u) ==
    \/ matchesRoot(u)
    \/ \E k \in 1..Len(HomeWords) : matchesListing(HomeWords[k], u)

----------------------------------------------------------------------------
(* Steps: device filter, element lookup, step list construction *)

\* faulty variant: the breakpoint itself counts as mobile
isMobileDevice_Inclusive(width) == width <= MobileBreakpoint

isMobileDevice(width) == width < MobileBreakpoint

shouldShowStep(step, width) ==
    LET device == IF step.device = None THEN "all" ELSE TheVal(step.device)
    IN  IF device = "all" THEN TRUE
        ELSE IF device = "mobile" /\ isMobileDevice(width) THEN TRUE
        ELSE IF device = "desktop" /\ ~isMobileDevice(width) THEN TRUE
        ELSE FALSE

\* The document: its elements in document order, each given by the set of
\* simple selectors it matches.  The content of the side panel follows the
\* page's elements while the panel is visible.
Matching(panelOpen) == dom \o (IF panelOpen THEN <<{"side"}>> ELSE <<>>)

\* document.querySelector(sel): the first element of the document, in
\* document order, that matches sel; an element is named by its position
querySelector(sel, doc) ==
    LET hits == {e \in 1..Len(doc) : sel \in doc[e]}
    IN  IF hits = {} THEN None
        ELSE Some(CHOOSE e \in hits : \A f \in hits : e <= f)

\* faulty variant: the whole list is handed to one querySelector call, which
\* returns the first element in document order matching any alternative
findElement_DocumentOrder(selector, doc) ==
    LET hits == {e \in 1..Len(doc) :
                    \E k \in 1..Len(selector) : selector[k] \in doc[e]}
    IN  IF hits = {} THEN None
        ELSE Some(CHOOSE e \in hits : \A f \in hits : e <= f)

\* A selector is the list of its comma-separated, trimmed alternatives;
\* the empty list is the empty / whitespace-only selector.
RECURSIVE findElement(_, _)
findElement(selector, doc) ==
    IF selector = <<>> THEN None
    ELSE LET el == querySelector(Head(selector), doc)
         IN  IF el # None THEN el
             ELSE findElement(Tail(selector), doc)

welcomeConfig ==
    [isCentered |-> TRUE, selector |-> <<>>, title |-> "welcome_title",
     openSidebar |-> FALSE]

doneConfig ==
    [isCentered |-> TRUE, selector |-> <<>>, title |-> "done_title",
     openSidebar |-> FALSE]

stepConfigOf(step) ==
    [isCentered |-> step.selector = <<>>, selector |-> step.selector,
     title |-> getLocalizedText(step.title, locale),
     openSidebar |-> step.openSidebar]

VisibleSteps(config, width) ==
    SelectSeq(config, LAMBDA step : shouldShowStep(step, width))

buildTourStepConfigs(config, width) ==
    LET visible == VisibleSteps(config, width)
    IN  <<welcomeConfig>>
        \o [k \in 1..Len(visible) |-> stepConfigOf(visible[k])]
        \o <<doneConfig>>

\* drive variant: anchored steps whose element is missing are left out
RECURSIVE resolvedSteps(_, _)
resolvedSteps(visible, matching) ==
    IF visible = <<>> THEN <<>>
    ELSE LET step == Head(visible)
             rest == resolvedSteps(Tail(visible), matching)
             title == getLocalizedText(step.title, locale)
             el == findElement(step.selector, matching)
         IN  IF step.selector = <<>>
             THEN <<[element |-> None, title |-> title]>> \o rest
             ELSE IF el # None
             THEN <<[element |-> el, title |-> title]>> \o rest
             ELSE rest

buildTourSteps(config, width, matching) ==
    <<[element |-> None, title |-> "welcome_title"]>>
    \o resolvedSteps(VisibleSteps(config, width), matching)
    \o <<[element |-> None, title |-> "done_title"]>>

\* variant "local": no device filter, the title read as a plain string
RECURSIVE resolvedStepsLocal(_, _)
resolvedStepsLocal(config, matching) ==
    IF config = <<>> THEN <<>>
    ELSE LET step == Head(config)
             rest == resolvedStepsLocal(Tail(config), matching)
             el == findElement(step.selector, matching)
         IN  IF step.selector = <<>>
             THEN <<[element |-> None, title |-> step.title.text]>> \o rest
             ELSE IF el # None
             THEN <<[element |-> el,
                     title |-> OrElse(step.title.text, "Feature")]>> \o rest
             ELSE rest

\* variant "local": a bookend is pushed only if its title or description
\* is provided
buildTourStepsLocal(config, welcomeTitle, welcomeDesc, doneTitle, doneDesc, matching) ==
    (IF welcomeTitle # "" \/ welcomeDesc # ""
     THEN <<[element |-> None, title |-> OrElse(welcomeTitle, "Welcome!")]>>
     ELSE <<>>)
    \o resolvedStepsLocal(config, matching)
    \o (IF doneTitle # "" \/ doneDesc # ""
        THEN <<[element |-> None, title |-> OrElse(doneTitle, "Done!")]>>
        ELSE <<>>)

\* startTour: the check that abandons a run with nothing to show
noStepsFound(list) == Len(list) = 0

----------------------------------------------------------------------------
(* highlight variant: showStep / displayStep / buildDriverStep *)

\* one of the toggle selectors matches an element
togglePresent == toggles > 0

\* faulty variant: the first toggle found is clicked whether or not the
\* panel is open
openMobileSidebar_ClicksAnyway(panelOpen) ==
    IF togglePresent
    THEN [found |-> TRUE, clicks |-> 1]
    ELSE [found |-> FALSE, clicks |-> 0]

\* openMobileSidebar: its return value and the toggle.click() calls it made;
\* the loop over the toggle selectors returns at the first one that matches
openMobileSidebar(panelOpen) ==
    IF togglePresent
    THEN (IF panelOpen
          THEN [found |-> TRUE, clicks |-> 0]
          ELSE [found |-> TRUE, clicks |-> 1])
    ELSE [found |-> FALSE, clicks |-> 0]

\* the side panel after so many clicks on its toggle: each click flips it
panelAfterClicks(panelOpen, clicks) ==
    IF clicks % 2 = 1 THEN ~panelOpen ELSE panelOpen

buildDriverStep(config, matching) ==
    IF config.isCentered
    THEN Some([element |-> None, title |-> config.title])
    ELSE LET element == findElement(config.selector, matching)
         IN  IF element = None THEN None
             ELSE Some([element |-> element, title |-> config.title])

\* faulty variant: the step before the last one is taken for the last
popoverOf_LastOffByOne(step, index, total) ==
    LET isLastStep == index = total - 2
        isFirstStep == index = 0
    IN  [ index |-> index,
          element |-> step.element,
          progress |-> IF step.title # "" THEN Some(<<index + 1, total>>)
                       ELSE None,
          showButtons |-> IF isFirstStep THEN {"next", "close"}
                          ELSE {"next", "previous", "close"},
          nextBtnText |-> IF isLastStep THEN "done_button" ELSE "next_button",
          isLastStep |-> isLastStep,
          isFirstStep |-> isFirstStep ]

\* faulty variant: every step offers the previous button
popoverOf_PreviousOnFirst(step, index, total) ==
    LET isLastStep == index = total - 1
        isFirstStep == index = 0
    IN  [ index |-> index,
          element |-> step.element,
          progress |-> IF step.title # "" THEN Some(<<index + 1, total>>)
                       ELSE None,
          showButtons |-> {"next", "previous", "close"},
          nextBtnText |-> IF isLastStep THEN "done_button" ELSE "next_button",
          isLastStep |-> isLastStep,
          isFirstStep |-> isFirstStep ]

\* the step object handed to driverObj.highlight()
popoverOf(step, index, total) ==
    LET isLastStep == index = total - 1
        isFirstStep == index = 0
    IN  [ index |-> index,
          element |-> step.element,
          progress |-> IF step.title # "" THEN Some(<<index + 1, total>>)
                       ELSE None,
          showButtons |-> IF isFirstStep THEN {"next", "close"}
                          ELSE {"next", "previous", "close"},
          nextBtnText |-> IF isLastStep THEN "done_button" ELSE "next_button",
          isLastStep |-> isLastStep,
          isFirstStep |-> isFirstStep ]

\* faulty variant: destroy() forgets the instance but leaves its overlay up
Destroyed_LeavesOverlay(st) ==
    [st EXCEPT !.driverObj = IF @ = "null" THEN "null" ELSE "destroyed",
               !.shown = None]

\* driverObj.destroy(), and `if (driverObj) driverObj.destroy()`
Destroyed(st) ==
    [st EXCEPT !.driverObj = IF @ = "null" THEN "null" ELSE "destroyed",
               !.shown = None,
               !.overlays = IF st.driverObj = "live" THEN @ - 1 ELSE @]

RECURSIVE showStep(_, _, _)
RECURSIVE displayStep(_, _, _)
RECURSIVE displayStep_SkipTwo(_, _, _)

\* faulty variant: a missing element skips two steps ahead
displayStep_SkipTwo(cfgs, index, st) ==
    LET step == buildDriverStep(cfgs[index + 1], Matching(st.sidebarOpen))
    IN  IF step = None
        THEN LET st1 == [st EXCEPT !.skipped = @ \cup {index}]
             IN  IF index + 2 <= Len(cfgs) - 1
                 THEN showStep(cfgs, index + 2, st1)
                 ELSE IF index < Len(cfgs) - 1
                 THEN showStep(cfgs, index + 1, st1)
                 ELSE st1
        ELSE [Destroyed(st) EXCEPT
                 !.driverObj = "live",
                 !.shown = Some(popoverOf(TheVal(step), index, Len(cfgs))),
                 !.overlays = @ + 1]

\* faulty variant: a missing element sends the sequencer one step back
displayStep_SkipsBackward(cfgs, index, st) ==
    LET step == buildDriverStep(cfgs[index + 1], Matching(st.sidebarOpen))
    IN  IF step = None
        THEN LET st1 == [st EXCEPT !.skipped = @ \cup {index}]
             IN  IF index > 0
                 THEN showStep(cfgs, index - 1, st1)
                 ELSE st1
        ELSE [Destroyed(st) EXCEPT
                 !.driverObj = "live",
                 !.shown = Some(popoverOf(TheVal(step), index, Len(cfgs))),
                 !.overlays = @ + 1]

displayStep(cfgs, index, st) ==
    LET step == buildDriverStep(cfgs[index + 1], Matching(st.sidebarOpen))
    IN  IF step = None
        THEN LET st1 == [st EXCEPT !.skipped = @ \cup {index}]
             IN  IF index < Len(cfgs) - 1
                 THEN showStep(cfgs, index + 1, st1)
                 ELSE st1
        ELSE [Destroyed(st) EXCEPT
                 !.driverObj = "live",
                 !.shown = Some(popoverOf(TheVal(step), index, Len(cfgs))),
                 !.overlays = @ + 1]

\* faulty variant: the step is displayed at once, without the settle interval
showStep_NoSettle(cfgs, index, st) ==
    IF index < 0 \/ index >= Len(cfgs) THEN st
    ELSE LET config == cfgs[index + 1]
             st1 == [st EXCEPT !.currentStepIndex = index]
         IN  IF config.openSidebar
             THEN displayStep(cfgs, index,
                     [st1 EXCEPT
                         !.sidebarOpen =
                             panelAfterClicks(@, openMobileSidebar(@).clicks),
                         !.toggleClicks =
                             @ + openMobileSidebar(st1.sidebarOpen).clicks])
             ELSE displayStep(cfgs, index, st1)

\* faulty variant: the index is stored before the range is checked
showStep_AssignsFirst(cfgs, index, st) ==
    LET st1 == [st EXCEPT !.currentStepIndex = index]
    IN  IF index < 0 \/ index >= Len(cfgs) THEN st1
        ELSE IF cfgs[index + 1].openSidebar
        THEN [st1 EXCEPT
                 !.sidebarOpen = panelAfterClicks(@, openMobileSidebar(@).clicks),
                 !.toggleClicks = @ + openMobileSidebar(st1.sidebarOpen).clicks,
                 !.settleTimers = @ \cup {index}]
        ELSE displayStep(cfgs, index, st1)

showStep(cfgs, index, st) ==
    IF index < 0 \/ index >= Len(cfgs) THEN st
    ELSE LET config == cfgs[index + 1]
             st1 == [st EXCEPT !.currentStepIndex = index]
         IN  IF config.openSidebar
             THEN [st1 EXCEPT
                      !.sidebarOpen =
                          panelAfterClicks(@, openMobileSidebar(@).clicks),
                      !.toggleClicks =
                          @ + openMobileSidebar(st1.sidebarOpen).clicks,
                      !.settleTimers = @ \cup {index}]
             ELSE displayStep(cfgs, index, st1)

\* the sequencer's variables as one record, and their values after destroy()
SeqState ==
    [currentStepIndex |-> currentStepIndex, driverObj |-> driverObj,
     shown |-> shown, settleTimers |-> settleTimers,
     sidebarOpen |-> sidebarOpen, overlays |-> overlays,
     toggleClicks |-> toggleClicks, skipped |-> skipped]

SetSeq(st) ==
    /\ currentStepIndex' = st.currentStepIndex
    /\ driverObj' = st.driverObj
    /\ shown' = st.shown
    /\ settleTimers' = st.settleTimers
    /\ sidebarOpen' = st.sidebarOpen
    /\ overlays' = st.overlays
    /\ toggleClicks' = st.toggleClicks
    /\ skipped' = st.skipped

----------------------------------------------------------------------------
(* Trigger controller: initialize and its onPageChange handler *)

isLoggedIn == currentUser # None
themeSettings == getThemeSettings(settings)

\* faulty variant: the triggered flag is set by the timer callback, not by the handler
onPageChange_LateFlag(u) ==
    /\ url' = u
    /\ IF ~tourTriggered /\ isHomePage(u)
          /\ shouldShowTour(currentUser, themeSettings, isLoggedIn, cookies)
       THEN /\ tourTriggered' = (startsFired > 0)
            /\ startsScheduled' = startsScheduled + 1
            /\ startDelay' = Some(themeSettings.tour_delay_ms)
            /\ UNCHANGED uncaught
       ELSE UNCHANGED triggerVars
    /\ UNCHANGED <<envVars, cookies, startsFired, seqVars>>

\* faulty variant: the handler records completion when it schedules the start
onPageChange_MarksCompletion(u) ==
    /\ url' = u
    /\ IF ~tourTriggered /\ isHomePage(u)
          /\ shouldShowTour(currentUser, themeSettings, isLoggedIn, cookies)
       THEN /\ tourTriggered' = TRUE
            /\ startsScheduled' = startsScheduled + 1
            /\ startDelay' = Some(themeSettings.tour_delay_ms)
            /\ UNCHANGED uncaught
            /\ cookies' = markTourCompleted(cookies, isLoggedIn, cookiesEnabled)
       ELSE UNCHANGED <<triggerVars, cookies>>
    /\ UNCHANGED <<envVars, startsFired, seqVars>>

\* the gate as the loaded revision evaluates it
mayShowTour ==
    IF variant = "local"
    THEN shouldShowTourLocal(currentUser, themeSettings, isLoggedIn, cookies, storeThrows)
    ELSE Returned(shouldShowTour(currentUser, themeSettings, isLoggedIn, cookies))

\* the write of the completion flag as the loaded revision performs it
completionRecorded ==
    IF variant = "local"
    THEN markTourCompletedLocal(cookies, isLoggedIn, storeThrows)
    ELSE markTourCompleted(cookies, isLoggedIn, cookiesEnabled)

\* faulty variant: the flag is set as soon as the route is a landing page,
\* before the gate is asked
onPageChange_FlagBeforeGate(u) ==
    /\ url' = u
    /\ IF tourTriggered THEN UNCHANGED triggerVars
       ELSE IF ~isHomePage(u) THEN UNCHANGED triggerVars
       ELSE IF mayShowTour.raised
       THEN /\ uncaught' = TRUE
            /\ tourTriggered' = TRUE
            /\ UNCHANGED <<startsScheduled, startDelay>>
       ELSE IF ~mayShowTour.value
       THEN /\ tourTriggered' = TRUE
            /\ UNCHANGED <<startsScheduled, startDelay, uncaught>>
       ELSE /\ tourTriggered' = TRUE
            /\ startsScheduled' = startsScheduled + 1
            /\ startDelay' = Some(themeSettings.tour_delay_ms)
            /\ UNCHANGED uncaught
    /\ UNCHANGED <<envVars, cookies, startsFired, seqVars>>

onPageChange(u) ==
    /\ url' = u
    /\ IF tourTriggered THEN UNCHANGED triggerVars
       ELSE IF ~isHomePage(u) THEN UNCHANGED triggerVars
       ELSE IF mayShowTour.raised
       THEN /\ uncaught' = TRUE
            /\ UNCHANGED <<tourTriggered, startsScheduled, startDelay>>
       ELSE IF ~mayShowTour.value
       THEN UNCHANGED triggerVars
       ELSE /\ tourTriggered' = TRUE
            /\ startsScheduled' = startsScheduled + 1
            /\ startDelay' = Some(themeSettings.tour_delay_ms)
            /\ UNCHANGED uncaught
    /\ UNCHANGED <<envVars, cookies, startsFired, seqVars>>

Navigate == \E u \in routes : onPageChange(u)

----------------------------------------------------------------------------
(* startTour, run by the timer callback *)

FreshSeq ==
    [currentStepIndex |-> 0, driverObj |-> "null", shown |-> None,
     settleTimers |-> {}, sidebarOpen |-> sidebarOpen, overlays |-> overlays,
     toggleClicks |-> toggleClicks, skipped |-> {}]

startTourHighlight ==
    IF ~driverLoaded THEN UNCHANGED seqVars
    ELSE LET cfgs == buildTourStepConfigs(stepsConfig, innerWidth)
         IN  IF noStepsFound(cfgs) THEN UNCHANGED seqVars
             ELSE /\ stepConfigs' = cfgs
                  /\ SetSeq(showStep(cfgs, 0, FreshSeq))
                  /\ runState' = "Running"
                  /\ reqDir' = "start"
                  /\ reqFrom' = None

\* drive variant: what the library shows for steps[index] under
\* showProgress: true and its default buttons
drivePopover(steps, index) ==
    [ index |-> index,
      element |-> steps[index + 1].element,
      progress |-> Some(<<index + 1, Len(steps)>>),
      showButtons |-> IF index = 0 THEN {"next", "close"}
                      ELSE {"next", "previous", "close"},
      nextBtnText |-> IF index = Len(steps) - 1 THEN "done_button"
                      ELSE "next_button",
      isLastStep |-> index = Len(steps) - 1,
      isFirstStep |-> index = 0 ]

\* faulty variant: the run is started without looking for the library
startTourDrive_NoLibraryCheck ==
    LET steps == buildTourSteps(stepsConfig, innerWidth, Matching(sidebarOpen))
    IN  IF noStepsFound(steps) THEN UNCHANGED seqVars
        ELSE /\ stepConfigs' = steps
             /\ SetSeq([FreshSeq EXCEPT
                   !.driverObj = "live",
                   !.shown = Some(drivePopover(steps, 0)),
                   !.overlays = @ + 1])
             /\ runState' = "Running"
             /\ reqDir' = "start"
             /\ reqFrom' = None

startTourDrive ==
    IF ~driverLoaded THEN UNCHANGED seqVars
    ELSE LET steps == buildTourSteps(stepsConfig, innerWidth, Matching(sidebarOpen))
         IN  IF noStepsFound(steps) THEN UNCHANGED seqVars
             ELSE /\ stepConfigs' = steps
                  /\ SetSeq([FreshSeq EXCEPT
                        !.driverObj = "live",
                        !.shown = Some(drivePopover(steps, 0)),
                        !.overlays = @ + 1])
                  /\ runState' = "Running"
                  /\ reqDir' = "start"
                  /\ reqFrom' = None

\* variant "local": the bookend texts of the visitor's class
startTourLocal ==
    IF ~driverLoaded THEN UNCHANGED seqVars
    ELSE LET ts == getThemeSettingsLocal(settings)
             welcomeTitle == IF isLoggedIn THEN ts.welcome_title_logged_in
                             ELSE ts.welcome_title_anonymous
             welcomeDesc == IF isLoggedIn THEN ts.welcome_description_logged_in
                            ELSE ts.welcome_description_anonymous
             doneTitle == IF isLoggedIn THEN ts.done_title_logged_in
                          ELSE ts.done_title_anonymous
             doneDesc == IF isLoggedIn THEN ts.done_description_logged_in
                         ELSE ts.done_description_anonymous
             steps == buildTourStepsLocal(stepsConfig, welcomeTitle, welcomeDesc,
                                          doneTitle, doneDesc, Matching(sidebarOpen))
         IN  IF noStepsFound(steps) THEN UNCHANGED seqVars
             ELSE /\ stepConfigs' = steps
                  /\ SetSeq([FreshSeq EXCEPT
                        !.driverObj = "live",
                        !.shown = Some(drivePopover(steps, 0)),
                        !.overlays = @ + 1])
                  /\ runState' = "Running"
                  /\ reqDir' = "start"
                  /\ reqFrom' = None

StartTimerFires ==
    /\ startsFired < startsScheduled
    /\ startsFired' = startsFired + 1
    /\ IF variant = "highlight" THEN startTourHighlight
       ELSE IF variant = "drive" THEN startTourDrive
       ELSE startTourLocal
    /\ UNCHANGED <<envVars, cookies, url, triggerVars>>

----------------------------------------------------------------------------
(* Callbacks of a live overlay *)

\* faulty variant: the next handler leaves the overlay up while the next
\* step is being shown
onNextClick_NoDestroy ==
    /\ variant = "highlight"
    /\ driverObj = "live"
    /\ LET index == TheVal(shown).index
       IN  IF TheVal(shown).isLastStep
           THEN /\ cookies' = markTourCompleted(cookies, isLoggedIn, cookiesEnabled)
                /\ SetSeq(Destroyed(SeqState))
                /\ runState' = "Finished"
                /\ UNCHANGED <<reqDir, reqFrom>>
           ELSE /\ SetSeq(showStep(stepConfigs, index + 1,
                                   [SeqState EXCEPT !.skipped = {}]))
                /\ reqDir' = "next"
                /\ reqFrom' = Some(index)
                /\ UNCHANGED <<cookies, runState>>
    /\ UNCHANGED <<envVars, url, triggerVars, startsFired, stepConfigs>>

\* step.popover.onNextClick (highlight variant)
onNextClick ==
    /\ variant = "highlight"
    /\ driverObj = "live"
    /\ LET index == TheVal(shown).index
       IN  IF TheVal(shown).isLastStep
           THEN /\ cookies' = markTourCompleted(cookies, isLoggedIn, cookiesEnabled)
                /\ SetSeq(Destroyed(SeqState))
                /\ runState' = "Finished"
                /\ UNCHANGED <<reqDir, reqFrom>>
           ELSE /\ SetSeq(showStep(stepConfigs, index + 1,
                                   [Destroyed(SeqState) EXCEPT !.skipped = {}]))
                /\ reqDir' = "next"
                /\ reqFrom' = Some(index)
                /\ UNCHANGED <<cookies, runState>>
    /\ UNCHANGED <<envVars, url, triggerVars, startsFired, stepConfigs>>

\* step.popover.onPrevClick (highlight variant)
onPrevClick ==
    /\ variant = "highlight"
    /\ driverObj = "live"
    /\ LET index == TheVal(shown).index
       IN  IF TheVal(shown).isFirstStep
           THEN UNCHANGED <<currentStepIndex, driverObj, shown, settleTimers,
                            sidebarOpen, overlays, toggleClicks, skipped,
                            reqDir, reqFrom>>
           ELSE /\ SetSeq(showStep(stepConfigs, index - 1,
                                   [Destroyed(SeqState) EXCEPT !.skipped = {}]))
                /\ reqDir' = "prev"
                /\ reqFrom' = Some(index)
    /\ UNCHANGED <<envVars, cookies, url, triggerVars, startsFired,
                   stepConfigs, runState>>

\* setTimeout(() => displayStep(config, index), 500) fires
SettleTimerFires ==
    \E index \in settleTimers :
        /\ SetSeq(displayStep(stepConfigs, index,
                              [SeqState EXCEPT !.settleTimers = @ \ {index}]))
        /\ UNCHANGED <<envVars, cookies, url, triggerVars, startsFired,
                       stepConfigs, runState, reqDir, reqFrom>>

\* faulty variant: the dismiss handler records completion and leaves the
\* overlay up
onDestroyStarted_NoDestroy ==
    /\ driverObj = "live"
    /\ cookies' = completionRecorded
    /\ runState' = "Aborted"
    /\ UNCHANGED <<envVars, url, triggerVars, startsFired, stepConfigs,
                   currentStepIndex, driverObj, shown, settleTimers, sidebarOpen,
                   overlays, toggleClicks, skipped, reqDir, reqFrom>>

\* onDestroyStarted: the overlay's dismiss signal (close button, click
\* outside, Escape), in both variants
onDestroyStarted ==
    /\ driverObj = "live"
    /\ cookies' = completionRecorded
    /\ SetSeq(Destroyed(SeqState))
    /\ runState' = "Aborted"
    /\ UNCHANGED <<envVars, url, triggerVars, startsFired, stepConfigs,
                   reqDir, reqFrom>>

\* drive variant: the library's own next button; past the last step it
\* ends the tour through the onDestroyStarted hook
driveNext ==
    /\ variant \in {"drive", "local"}
    /\ driverObj = "live"
    /\ LET index == TheVal(shown).index
       IN  IF index + 1 < Len(stepConfigs)
           THEN /\ shown' = Some(drivePopover(stepConfigs, index + 1))
                /\ currentStepIndex' = index + 1
                /\ reqDir' = "next"
                /\ reqFrom' = Some(index)
                /\ UNCHANGED <<cookies, driverObj, overlays, runState>>
           ELSE /\ cookies' = completionRecorded
                /\ driverObj' = "destroyed"
                /\ shown' = None
                /\ overlays' = overlays - 1
                /\ runState' = "Finished"
                /\ UNCHANGED <<currentStepIndex, reqDir, reqFrom>>
    /\ UNCHANGED <<envVars, url, triggerVars, startsFired, stepConfigs,
                   settleTimers, sidebarOpen, toggleClicks, skipped>>

\* drive variant: the library's own previous button
drivePrevious ==
    /\ variant \in {"drive", "local"}
    /\ driverObj = "live"
    /\ TheVal(shown).index > 0
    /\ LET index == TheVal(shown).index
       IN  /\ shown' = Some(drivePopover(stepConfigs, index - 1))
           /\ currentStepIndex' = index - 1
           /\ reqDir' = "prev"
           /\ reqFrom' = Some(index)
    /\ UNCHANGED <<envVars, cookies, url, triggerVars, startsFired, stepConfigs,
                   driverObj, settleTimers, sidebarOpen, overlays, toggleClicks,
                   skipped, runState>>

\* a full page reload runs initialize again; only the cookies survive
Reload ==
    /\ url' = <<>>
    /\ tourTriggered' = FALSE
    /\ startsScheduled' = 0
    /\ startDelay' = None
    /\ uncaught' = FALSE
    /\ startsFired' = 0
    /\ stepConfigs' = <<>>
    /\ currentStepIndex' = 0
    /\ driverObj' = "null"
    /\ shown' = None
    /\ settleTimers' = {}
    /\ sidebarOpen' = FALSE
    /\ overlays' = 0
    /\ toggleClicks' = 0
    /\ runState' = "Idle"
    /\ reqDir' = "none"
    /\ reqFrom' = None
    /\ skipped' = {}
    /\ UNCHANGED <<envVars, cookies>>

----------------------------------------------------------------------------
(* Initial states *)

\* documents: nothing matches, one selector matches, or both match, the
\* element matching "a" placed before the one matching "b"
Documents == { <<>>, <<{"a"}>>, <<{"b"}>>, <<{"a"}, {"b"}>> }

StepPool ==
    { [selector |-> <<"a">>, device |-> None, openSidebar |-> FALSE, title |-> Str("Search")],
      [selector |-> <<"b", "a">>, device |-> Some("desktop"), openSidebar |-> FALSE, title |-> Str("")],
      [selector |-> <<"side">>, device |-> Some("mobile"), openSidebar |-> TRUE, title |-> Str("Navigation")],
      [selector |-> <<>>, device |-> Some("all"), openSidebar |-> FALSE, title |-> Str("Tips")] }

StepLists == UNION { [1..n -> StepPool] : n \in 1..MaxSteps }

Words == {"latest", "top", "categories", "new", "unread", "search"}

AllRoutes ==
    {<<>>, <<"/">>, <<"/", "/">>}
    \cup { <<"/", w>> : w \in Words }
    \cup { <<"/", w, "/">> : w \in Words }
    \cup { <<"/", "latest", "/", "/">>, <<"/", "latest", "/", "top">>,
           <<"/", "search", "/", "latest">>, <<"latest">> }

FewRoutes == { <<"/">>, <<"/", "search">> }

TrustLevels == 0..MaxTrust

Users == {None} \cup { Some([trust_level |-> t]) :
                         t \in {None} \cup { Some(n) : n \in TrustLevels } }

\* the settings as they are when the operator has set nothing
BaseSettings ==
    [ tour_enabled |-> None, target_trust_level |-> None, tour_delay_ms |-> None,
      tour_steps_anonymous |-> <<>>, tour_steps_logged_in |-> <<>>,
      welcome_title_anonymous |-> "", welcome_description_anonymous |-> "",
      done_title_anonymous |-> "", done_description_anonymous |-> "",
      welcome_title_logged_in |-> "", welcome_description_logged_in |-> "",
      done_title_logged_in |-> "", done_description_logged_in |-> "" ]

\* the JSON text the tour editor writes for a list of steps
Encode(list) ==
    <<Tok("[")>>
    \o [k \in 1..(2 * Len(list) - 1) |->
          IF k % 2 = 1 THEN ObjTok(list[(k + 1) \div 2]) ELSE Tok(",")]
    \o <<Tok("]")>>

\* both classes given the same step text
WithSteps(s, text) ==
    [s EXCEPT !.tour_steps_anonymous = text, !.tour_steps_logged_in = text]

SettingsSpace ==
    { [BaseSettings EXCEPT !.tour_enabled = e, !.target_trust_level = t] :
        e \in {None, Some(TRUE), Some(FALSE)},
        t \in {None} \cup { Some(n) : n \in TrustLevels } }

\* initialize: the step list of the visitor's class
stepsConfigOf(ts, loggedIn) ==
    IF loggedIn
    THEN parseStepsConfig(ts.tour_steps_logged_in, DEFAULT_STEPS_LOGGED_IN)
    ELSE parseStepsConfig(ts.tour_steps_anonymous, DEFAULT_STEPS_ANONYMOUS)

PageLoadInit ==
    /\ url = <<>>
    /\ tourTriggered = FALSE
    /\ startsScheduled = 0
    /\ startDelay = None
    /\ uncaught = FALSE
    /\ startsFired = 0
    /\ stepConfigs = <<>>
    /\ currentStepIndex = 0
    /\ driverObj = "null"
    /\ shown = None
    /\ settleTimers = {}
    /\ sidebarOpen = FALSE
    /\ overlays = 0
    /\ toggleClicks = 0
    /\ runState = "Idle"
    /\ reqDir = "none"
    /\ reqFrom = None
    /\ skipped = {}

GateSteps ==
    <<[selector |-> <<"a">>, device |-> None, openSidebar |-> FALSE,
       title |-> Str("Search")]>>

\* a first visit: every gate input and route, one step list
InitGate ==
    /\ variant = "highlight"
    /\ settings \in { WithSteps(s, Encode(GateSteps)) : s \in SettingsSpace }
    /\ locale = <<"en">>
    /\ currentUser \in Users
    /\ innerWidth = 767
    /\ driverLoaded = TRUE
    /\ stepsConfig = stepsConfigOf(getThemeSettings(settings), currentUser # None)
    /\ dom = <<{"a"}>>
    /\ toggles = 1
    /\ cookiesEnabled \in BOOLEAN
    /\ storeThrows = FALSE
    /\ routes = AllRoutes
    /\ cookies = [k \in StorageKeys |-> NoCookie]
    /\ PageLoadInit

\* a first visit: every step list and page, the default gate settings
InitTour ==
    /\ variant \in {"highlight", "drive"}
    /\ settings \in { WithSteps(BaseSettings, Encode(list)) : list \in StepLists }
    /\ locale = <<"en">>
    /\ currentUser \in {None, Some([trust_level |-> Some(1)])}
    /\ innerWidth \in {MobileBreakpoint - 1, MobileBreakpoint}
    /\ driverLoaded \in BOOLEAN
    /\ stepsConfig = stepsConfigOf(getThemeSettings(settings), currentUser # None)
    /\ dom \in Documents
    /\ toggles \in {0, 1}
    /\ cookiesEnabled \in BOOLEAN
    /\ storeThrows = FALSE
    /\ routes = FewRoutes
    /\ cookies = [k \in StorageKeys |-> NoCookie]
    /\ PageLoadInit

\* a page on which some of the built-in steps find their element
DefaultDocument ==
    << {"#search-button"}, {".latest-topic-list"}, {"#create-topic"} >>

\* two authored steps whose elements are both on DefaultDocument
TwoSteps == SubSeq(DEFAULT_STEPS_ANONYMOUS, 1, 2)

ScenarioRoutes == { <<"/">>, <<"/", "latest">>, <<"/", "search">> }

\* step configuration texts, each with what it is and, for a list, the
\* steps it spells out
JsonCases ==
    { [text |-> <<>>, is |-> "absent", list |-> <<>>],
      [text |-> EmptyArrayText, is |-> "sentinel", list |-> <<>>],
      [text |-> <<Tok("["), Tok("space"), Tok("]")>>, is |-> "empty list", list |-> <<>>],
      [text |-> <<Tok("space")>>, is |-> "unparseable", list |-> <<>>],
      [text |-> <<Tok("junk")>>, is |-> "unparseable", list |-> <<>>],
      [text |-> <<Tok("["), ObjTok(TwoSteps[1]), Tok(",")>>,
       is |-> "unparseable", list |-> <<>>],
      [text |-> <<Tok("["), ObjTok(TwoSteps[1]), Tok(","), Tok("]")>>,
       is |-> "unparseable", list |-> <<>>],
      [text |-> <<Tok("["), ObjTok(TwoSteps[1]), Tok("]"), Tok("]")>>,
       is |-> "unparseable", list |-> <<>>],
      [text |-> <<ObjTok(TwoSteps[1])>>, is |-> "not a list", list |-> <<>>],
      [text |-> <<Tok("null")>>, is |-> "not a list", list |-> <<>>],
      [text |-> <<Tok("number")>>, is |-> "not a list", list |-> <<>>],
      [text |-> <<Tok("["), ObjTok(EmptyObject), Tok("]")>>,
       is |-> "list", list |-> <<EmptyObject>>],
      [text |-> <<Tok("space"), Tok("["), ObjTok(TwoSteps[2]), Tok("space"),
                  Tok(","), ObjTok(TwoSteps[1]), Tok("]"), Tok("space")>>,
       is |-> "list", list |-> <<TwoSteps[2], TwoSteps[1]>>] }

\* a first visit: every step configuration text, for either class
InitConfig ==
    /\ variant \in {"highlight", "drive"}
    /\ settings \in
          { [BaseSettings EXCEPT !.tour_steps_anonymous = c.text] : c \in JsonCases }
          \cup { [BaseSettings EXCEPT !.tour_steps_logged_in = c.text] : c \in JsonCases }
    /\ locale = <<"en">>
    /\ currentUser \in {None, Some([trust_level |-> Some(1)])}
    /\ innerWidth = MobileBreakpoint
    /\ driverLoaded = TRUE
    /\ stepsConfig = stepsConfigOf(getThemeSettings(settings), currentUser # None)
    /\ dom = DefaultDocument
    /\ toggles = 0
    /\ cookiesEnabled = TRUE
    /\ storeThrows = FALSE
    /\ routes = FewRoutes
    /\ cookies = [k \in StorageKeys |-> NoCookie]
    /\ PageLoadInit

\* configured delays: absent, zero, negative, the default value, another value
Delays == {None, Some(0), Some(0 - 5), Some(DefaultDelayMs), Some(300)}

\* a first visit: every delay, two authored steps that both resolve
InitDelay ==
    /\ variant \in {"highlight", "drive"}
    /\ settings \in { WithSteps([BaseSettings EXCEPT !.tour_delay_ms = d],
                                 Encode(TwoSteps)) : d \in Delays }
    /\ locale = <<"en">>
    /\ currentUser \in {None, Some([trust_level |-> Some(1)])}
    /\ innerWidth = MobileBreakpoint
    /\ driverLoaded \in BOOLEAN
    /\ stepsConfig = stepsConfigOf(getThemeSettings(settings), currentUser # None)
    /\ dom = DefaultDocument
    /\ toggles = 0
    /\ cookiesEnabled \in BOOLEAN
    /\ storeThrows = FALSE
    /\ routes = ScenarioRoutes
    /\ cookies = [k \in StorageKeys |-> NoCookie]
    /\ PageLoadInit

Locales == { <<>>, <<"en">>, <<"de">>, <<"pt">>, <<"pt", "BR">> }

Titles ==
    { NoText, Str(""), Str("Plain"),
      TextMap(<<>>),
      TextMap(<<Entry(<<"de">>, "")>>),
      TextMap(<<Entry(<<"fr">>, "Bonjour")>>),
      TextMap(<<Entry(<<"de">>, ""), Entry(<<"en">>, "Hello")>>),
      TextMap(<<Entry(<<"es">>, ""), Entry(<<"fr">>, "Bonjour"), Entry(<<"pt">>, "Oi")>>),
      TextMap(<<Entry(<<"en">>, "Hello"), Entry(<<"de">>, "Hallo")>>),
      TextMap(<<Entry(<<"pt", "BR">>, "Ola"), Entry(<<"en">>, "Hello")>>) }

\* documents in which the elements matching "a" and "b" take every order
OrderedDocuments ==
    Documents \cup { <<{"b"}, {"a"}>>, <<{"a", "b"}>>, <<{"c"}, {"a"}, {"b"}>> }

\* a first visit: one step with every kind of title under every locale,
\* anchored by two alternatives on every document
InitLocale ==
    /\ variant \in {"highlight", "drive"}
    /\ settings \in
          { WithSteps(BaseSettings,
                      Encode(<<[selector |-> <<"b", "a">>, device |-> None,
                                openSidebar |-> FALSE, title |-> title]>>)) :
              title \in Titles }
    /\ locale \in Locales
    /\ currentUser = None
    /\ innerWidth = MobileBreakpoint
    /\ driverLoaded = TRUE
    /\ stepsConfig = stepsConfigOf(getThemeSettings(settings), currentUser # None)
    /\ dom \in OrderedDocuments
    /\ toggles = 0
    /\ cookiesEnabled = TRUE
    /\ storeThrows = FALSE
    /\ routes = FewRoutes
    /\ cookies = [k \in StorageKeys |-> NoCookie]
    /\ PageLoadInit

\* the welcome and done texts of both classes set alike
WithBookends(s, wt, wd, dt, dd) ==
    [s EXCEPT !.welcome_title_anonymous = wt, !.welcome_title_logged_in = wt,
              !.welcome_description_anonymous = wd,
              !.welcome_description_logged_in = wd,
              !.done_title_anonymous = dt, !.done_title_logged_in = dt,
              !.done_description_anonymous = dd,
              !.done_description_logged_in = dd]

BookendTexts == {"", "Hi"}

\* a first visit under the localStorage revision: every blank / filled
\* combination of the bookend texts, storage available or not
InitLocal ==
    /\ variant = "local"
    /\ settings \in
          { WithBookends(WithSteps(BaseSettings, Encode(GateSteps)), wt, wd, dt, dd) :
              wt \in BookendTexts, wd \in BookendTexts,
              dt \in BookendTexts, dd \in BookendTexts }
    /\ locale = <<"en">>
    /\ currentUser \in {None, Some([trust_level |-> Some(1)])}
    /\ innerWidth = MobileBreakpoint
    /\ driverLoaded = TRUE
    /\ stepsConfig = stepsConfigOf(getThemeSettings(settings), currentUser # None)
    /\ dom \in { <<>>, <<{"a"}>> }
    /\ toggles = 0
    /\ storeThrows \in BOOLEAN
    /\ cookiesEnabled = ~storeThrows
    /\ routes = FewRoutes
    /\ cookies = [k \in StorageKeys |-> NoCookie]
    /\ PageLoadInit

\* steps that ask for the side panel: one anchored inside the panel, one
\* anchored on the page itself; and a step that does not ask for it
RevealPool ==
    { [selector |-> <<"side">>, device |-> None, openSidebar |-> TRUE, title |-> Str("Navigation")],
      [selector |-> <<"a">>, device |-> None, openSidebar |-> TRUE, title |-> Str("Search")],
      [selector |-> <<"b">>, device |-> None, openSidebar |-> FALSE, title |-> Str("Tips")] }

RevealLists == UNION { [1..n -> RevealPool] : n \in 1..MaxSteps }

\* a first visit to a page with or without the panel toggle, the step list
\* made of steps that ask for the side panel
InitReveal ==
    /\ variant = "highlight"
    /\ settings \in { WithSteps(BaseSettings, Encode(list)) : list \in RevealLists }
    /\ locale = <<"en">>
    /\ currentUser = None
    /\ innerWidth = MobileBreakpoint - 1
    /\ driverLoaded = TRUE
    /\ stepsConfig = stepsConfigOf(getThemeSettings(settings), currentUser # None)
    /\ dom \in Documents
    /\ toggles \in 0..MaxToggles
    /\ cookiesEnabled = TRUE
    /\ storeThrows = FALSE
    /\ routes = { <<"/">> }
    /\ cookies = [k \in StorageKeys |-> NoCookie]
    /\ PageLoadInit

Init ==
    \/ InitGate \/ InitTour \/ InitConfig \/ InitDelay \/ InitLocale \/ InitLocal
    \/ InitReveal

Next ==
    \/ Navigate
    \/ StartTimerFires
    \/ onNextClick
    \/ onPrevClick
    \/ SettleTimerFires
    \/ onDestroyStarted
    \/ driveNext
    \/ drivePrevious
    \/ Reload

Spec == Init /\ [][Next]_vars

\* the first visits on which the sequencer meets every step list, with a
\* settle timer that stays pending bound to expire
FairSpec ==
    /\ InitTour \/ InitReveal
    /\ [][Next]_vars
    /\ WF_vars(SettleTimerFires)

----------------------------------------------------------------------------
(* Logging in and out.  The host loads the page anew when the visitor logs   *)
(* in or out: initialize runs again and reads the new current user; the     *)
(* completion store is the browser's and survives.                          *)

PageLoadAs(user) ==
    /\ currentUser' = user
    /\ stepsConfig' = stepsConfigOf(themeSettings, user # None)
    /\ url' = <<>>
    /\ tourTriggered' = FALSE
    /\ startsScheduled' = 0
    /\ startDelay' = None
    /\ uncaught' = FALSE
    /\ startsFired' = 0
    /\ stepConfigs' = <<>>
    /\ currentStepIndex' = 0
    /\ driverObj' = "null"
    /\ shown' = None
    /\ settleTimers' = {}
    /\ sidebarOpen' = FALSE
    /\ overlays' = 0
    /\ toggleClicks' = 0
    /\ runState' = "Idle"
    /\ reqDir' = "none"
    /\ reqFrom' = None
    /\ skipped' = {}
    /\ UNCHANGED <<variant, settings, locale, innerWidth, driverLoaded, dom,
                   toggles, cookiesEnabled, storeThrows, routes, cookies>>

\* the account the visitor logs in to
Member == Some([trust_level |-> Some(1)])

LogIn == currentUser = None /\ PageLoadAs(Member)

LogOut == currentUser # None /\ PageLoadAs(None)

LoginNext == Next \/ LogIn \/ LogOut

\* first visits of all three revisions, by visitors who may log in and out
LoginSpec == (InitGate \/ InitTour \/ InitLocal) /\ [][LoginNext]_vars

----------------------------------------------------------------------------
(* Properties *)

\* the routes the specification lists as landing pages
LandingAllowList ==
    {<<"/">>}
    \cup { <<"/", w>> : w \in {"latest", "top", "categories", "new", "unread"} }
    \cup { <<"/", w, "/">> : w \in {"latest", "top", "categories", "new", "unread"} }

ClassKey == IF currentUser = None THEN STORAGE_KEY_ANON ELSE STORAGE_KEY_LOGGED_IN

Terminal == {"Finished", "Aborted"}

\* C1: within one page load the start is scheduled at most once; the
\* triggered flag is set by the handler run that schedules the timer, is
\* true for as long as the timer is pending, never returns to false, and a
\* navigation event received while it is true schedules nothing.
C1_ScheduledAtMostOnce ==
    [][ Reload \/
        /\ tourTriggered => tourTriggered'
        /\ tourTriggered => startsScheduled' = startsScheduled
        /\ startsScheduled' # startsScheduled =>
              /\ ~tourTriggered
              /\ tourTriggered'
              /\ startsScheduled' = startsScheduled + 1
        /\ startsScheduled' <= 1
        /\ startsFired' < startsScheduled' => tourTriggered' ]_vars

\* C1 witness: a navigation event arrived while the flag was set and the
\* start timer was still pending, and there is still exactly one timer.
C1_Witness ==
    /\ tourTriggered
    /\ startsScheduled = 1
    /\ startsFired = 0
    /\ url = <<"/", "search">>

\* C2: a navigation event whose route is outside the landing allow-list
\* never sets the triggered flag and never schedules a start.
C2_NonLandingNeverTriggers ==
    [][ Reload \/ (url' \notin LandingAllowList => UNCHANGED triggerVars) ]_vars

\* C2 witness: "/search" was visited with every gate open and nothing was
\* triggered.
C2_Witness ==
    /\ url = <<"/", "search">>
    /\ ~tourTriggered
    /\ startsScheduled = 0
    /\ shouldShowTour(currentUser, themeSettings, isLoggedIn, cookies)

\* C3 (as stated): recording completion twice is the same as once, and after
\* completion was recorded for the visitor's class the gate denies that class.
C3_Original ==
    /\ \A c \in BOOLEAN :
          markTourCompleted(markTourCompleted(cookies, c, cookiesEnabled), c, cookiesEnabled)
            = markTourCompleted(cookies, c, cookiesEnabled)
    /\ runState \in Terminal =>
          ~shouldShowTour(currentUser, themeSettings, isLoggedIn, cookies)

\* C3 (amended): recording completion twice is the same as once; when the
\* browser accepts the cookie write, after recording the gate check of that
\* class returns false, and while the flag of the visitor's class is set no
\* navigation event schedules a tour.
C3_IdempotentAndGating ==
    [][ /\ \A c \in BOOLEAN :
              LET once == markTourCompleted(cookies', c, cookiesEnabled')
                  twice == markTourCompleted(once, c, cookiesEnabled')
              IN  /\ twice = once
                  /\ cookiesEnabled' =>
                        /\ once[getStorageKey(c)] = "true"
                        /\ \A k \in StorageKeys \ {getStorageKey(c)} :
                              once[k] = cookies'[k]
                        /\ ~shouldShowTour(IF c THEN Some([trust_level |-> None]) ELSE None,
                                           [tour_enabled |-> TRUE,
                                            target_trust_level |-> DefaultTrustCeiling],
                                           c, once)
        /\ (runState' \in Terminal /\ cookiesEnabled') =>
              ~shouldShowTour(currentUser', themeSettings', isLoggedIn', cookies')
        /\ cookies[ClassKey] = "true" => startsScheduled' <= startsScheduled ]_vars

\* C3 witness: completion was recorded, the page was reloaded, and a
\* landing-page navigation of the same class was refused.
C3_Witness ==
    /\ cookiesEnabled
    /\ cookies[ClassKey] = "true"
    /\ runState = "Idle"
    /\ url = <<"/">>
    /\ ~tourTriggered
    /\ themeSettings.tour_enabled

\* the configured ceiling, 4 when the setting is absent
Ceiling ==
    IF settings.target_trust_level = None THEN DefaultTrustCeiling
    ELSE TheVal(settings.target_trust_level)

\* the visitor's trust level, 0 when absent
TrustLevel ==
    IF TheVal(currentUser).trust_level = None THEN 0
    ELSE TheVal(TheVal(currentUser).trust_level)

\* C4: with the tour enabled and not completed, a landing-page navigation
\* of an authenticated visitor is permitted iff the trust level is at most
\* the ceiling; that of an anonymous visitor is permitted whatever the
\* ceiling is.
C4_TrustLevelGate ==
    [][ ( /\ ~tourTriggered
          /\ url' \in LandingAllowList
          /\ settings.tour_enabled # Some(FALSE)
          /\ cookies[ClassKey] # "true" )
        => ( tourTriggered' <=> (currentUser = None \/ TrustLevel <= Ceiling) ) ]_vars

\* C4 witness: ceiling 2, trust level 3, a landing page visited, the tour
\* enabled and not completed, and nothing triggered.
C4_Witness ==
    /\ currentUser = Some([trust_level |-> Some(3)])
    /\ settings.target_trust_level = Some(2)
    /\ settings.tour_enabled # Some(FALSE)
    /\ cookies[ClassKey] # "true"
    /\ url = <<"/", "latest">>
    /\ ~tourTriggered

\* C5 (as stated): once a run has ended, by finish or by dismissal, the
\* completion flag of the visitor's class is set.
C5_Original ==
    runState \in Terminal => cookies[ClassKey] = "true"

\* C5 (amended): a run ends only by finish or dismissal, both of which
\* write the flag of the visitor's class: when the browser accepts the
\* cookie write the flag is "true" afterwards (and no other key changes),
\* and a running tour always has a live overlay or a pending settle timer.
C5_TerminalRecordsCompletion ==
    [][ /\ (runState = "Running" /\ runState' \in Terminal) =>
              /\ driverObj = "live"
              /\ cookies' = IF cookiesEnabled
                            THEN [cookies EXCEPT ![ClassKey] = "true"]
                            ELSE cookies
        /\ runState' = "Running" => (driverObj' = "live" \/ settleTimers' # {})
        /\ (runState \in Terminal /\ ~Reload) => UNCHANGED <<runState, cookies>> ]_vars

\* C5 witness: a run dismissed on a step after the first, with the flag set.
C5_Witness ==
    /\ runState = "Aborted"
    /\ currentStepIndex > 0
    /\ cookies[ClassKey] = "true"

\* C6: the cookie jar changes only in the step that ends a running tour with
\* a live overlay: a finish on the last step or a dismissal.
C6_WrittenOnlyOnTerminal ==
    [][ cookies' # cookies =>
          /\ runState = "Running"
          /\ driverObj = "live"
          /\ runState' \in Terminal
          /\ runState' = "Finished" => TheVal(shown).isLastStep ]_vars

\* C6 witness: a landing page was visited, the start ran, a step was skipped
\* for a missing element and next was pressed on a non-last step, and no
\* flag is set.
C6_Witness ==
    /\ runState = "Running"
    /\ reqDir = "next"
    /\ skipped # {}
    /\ cookiesEnabled
    /\ \A k \in StorageKeys : cookies[k] = NoCookie

\* C7: an overlay is rendered only for a step list that holds at least one
\* real step besides the welcome and done bookends.
C7_NoBookendOnlyRun ==
    driverObj = "live" => Len(stepConfigs) > 2

\* the step at index k of the running highlight sequence can be resolved
\* against the page outside the side panel
ResolvesOnPage(k) ==
    \/ stepConfigs[k + 1].isCentered
    \/ findElement(stepConfigs[k + 1].selector, dom) # None

\* C8: (highlight sequencer) after next was pressed on step i, the step
\* rendered is a later step j whose element resolved, every step strictly
\* between i and j was skipped as unresolvable and none of them was
\* rendered; while the request waits on a settle timer the steps before the
\* waiting index were skipped; and a running tour never stalls: it has a
\* live overlay or a pending settle timer.
C8_AdvanceSkipsUnresolvable ==
    variant = "highlight" =>
      /\ (driverObj = "live" /\ reqDir = "next") =>
            LET i == TheVal(reqFrom)
                j == TheVal(shown).index
            IN  /\ j > i
                /\ j = currentStepIndex
                /\ skipped = (i + 1)..(j - 1)
                /\ stepConfigs[j + 1].isCentered \/ TheVal(shown).element # None
                /\ ~stepConfigs[j + 1].isCentered =>
                      TheVal(shown).element =
                         findElement(stepConfigs[j + 1].selector, Matching(sidebarOpen))
      /\ (driverObj # "live" /\ reqDir = "next" /\ runState = "Running") =>
            /\ settleTimers = {currentStepIndex}
            /\ currentStepIndex > TheVal(reqFrom)
            /\ skipped = (TheVal(reqFrom) + 1)..(currentStepIndex - 1)
      /\ runState = "Running" =>
            /\ \A k \in skipped : ~ResolvesOnPage(k)
            /\ driverObj = "live" \/ settleTimers # {}

\* C8 witness: next skipped two consecutive unresolvable steps and rendered
\* the step after them.
C8_Witness ==
    /\ variant = "highlight"
    /\ driverObj = "live"
    /\ reqDir = "next"
    /\ Cardinality(skipped) >= 2
    /\ TheVal(shown).index = TheVal(reqFrom) + 3

\* the steps of the running sequence that resolve now
ResolvableNow ==
    { k \in 0..(Len(stepConfigs) - 1) :
        \/ stepConfigs[k + 1].isCentered
        \/ findElement(stepConfigs[k + 1].selector, Matching(sidebarOpen)) # None }

\* C9: (highlight sequencer) once a step has been skipped for a missing
\* element, the position and total shown on a rendered step count only the
\* resolvable steps.
C9_ProgressCountsResolvable ==
    (variant = "highlight" /\ driverObj = "live" /\ skipped # {}) =>
        TheVal(shown).progress =
            Some(<< Cardinality({k \in ResolvableNow : k <= TheVal(shown).index}),
                    Cardinality(ResolvableNow) >>)

\* C10: after previous was pressed on step i > 0 the rendered step has a
\* smaller index than i.
C10_RetreatLandsEarlier ==
    (driverObj = "live" /\ reqDir = "prev") =>
        TheVal(shown).index < TheVal(reqFrom)

\* an advance: the next button of the live overlay, in either sequencer
Advance == onNextClick \/ driveNext

\* the gate inputs of the end-to-end scenario: enabled, not yet completed,
\* trust level within the ceiling
GateOpen ==
    /\ settings.tour_enabled # Some(FALSE)
    /\ cookies[ClassKey] # "true"
    /\ currentUser = None \/ TrustLevel <= Ceiling

\* the configuration of the end-to-end scenario: delay 1500 ms and two
\* authored steps, both shown on this device and both anchored to an element
\* of the page
TwoStepScenario ==
    /\ settings.tour_delay_ms \in {None, Some(1500)}
    /\ Len(stepsConfig) = 2
    /\ \A k \in 1..2 :
          /\ stepsConfig[k].device \in {None, Some("all")}
          /\ ~stepsConfig[k].openSidebar
          /\ \E a \in 1..Len(stepsConfig[k].selector) :
                \E e \in 1..Len(dom) : stepsConfig[k].selector[a] \in dom[e]

\* C11 (as stated): in the scenario the run starts on the welcome step and
\* three advances bring it to Finished with the flag set; the third advance
\* of a run that only advances is the one made on index 2.
C11_Original ==
    [][ ( /\ TwoStepScenario
          /\ driverObj = "live"
          /\ TheVal(shown).index = 2
          /\ Advance )
        => ( runState' = "Finished" /\ cookies'[ClassKey] = "true" ) ]_vars

\* C11 (amended): in the scenario a navigation to "/latest" with the gate
\* open schedules the start with delay 1500; when the timer fires with the
\* library loaded the run starts on index 0 of four steps (welcome, the two
\* authored steps, done); an advance on index 0, 1 or 2 renders the next
\* index and the run keeps running; the advance on index 3, the fourth,
\* brings the run to Finished and writes the flag of the visitor's class,
\* which is "true" afterwards when the browser accepts the write.
C11_EndToEnd ==
    [][ TwoStepScenario =>
        /\ ( /\ url' = <<"/", "latest">>
             /\ url' # url
             /\ ~tourTriggered
             /\ GateOpen )
           => ( /\ tourTriggered'
                /\ startsScheduled' = startsScheduled + 1
                /\ startDelay' = Some(1500) )
        /\ ( startsFired' = startsFired + 1 /\ driverLoaded )
           => ( /\ runState' = "Running"
                /\ driverObj' = "live"
                /\ TheVal(shown').index = 0
                /\ TheVal(shown').element = None
                /\ Len(stepConfigs') = 4 )
        /\ ( driverObj = "live" /\ Advance )
           => IF TheVal(shown).index < 3
              THEN /\ runState' = "Running"
                   /\ driverObj' = "live"
                   /\ TheVal(shown').index = TheVal(shown).index + 1
                   /\ cookies' = cookies
              ELSE /\ runState' = "Finished"
                   /\ cookies' = IF cookiesEnabled
                                 THEN [cookies EXCEPT ![ClassKey] = "true"]
                                 ELSE cookies ]_vars

\* C11 witness: the scenario was run from "/latest" to the end: the run is
\* Finished on the done step at index 3 and the flag is set.
C11_Witness ==
    /\ TwoStepScenario
    /\ url = <<"/", "latest">>
    /\ startDelay = Some(1500)
    /\ runState = "Finished"
    /\ currentStepIndex = 3
    /\ reqDir = "next"
    /\ TheVal(reqFrom) = 2
    /\ cookies[ClassKey] = "true"

\* C12: when the start callback fires after the page has navigated away
\* from the landing route (the last navigation event named a route outside
\* the allow-list), it does nothing: no overlay is rendered and no settle
\* timer is started.
C12_PendingStartIsNoOp ==
    [][ ( startsFired' = startsFired + 1 /\ url \notin LandingAllowList )
        => ( driverObj' # "live" /\ settleTimers' = {} /\ runState' = "Idle" ) ]_vars

\* the step configuration text and the built-in list of the visitor's class
ClassStepsText ==
    IF currentUser = None THEN settings.tour_steps_anonymous
    ELSE settings.tour_steps_logged_in

ClassDefaults ==
    IF currentUser = None THEN DEFAULT_STEPS_ANONYMOUS
    ELSE DEFAULT_STEPS_LOGGED_IN

\* C13: the step list initialize obtains from parseStepsConfig is exactly
\* the built-in list of the visitor's class when the configured text is
\* absent or empty, is the sentinel "[]", does not parse, parses to a value
\* that is no list, or parses to an empty list; when it parses to a
\* non-empty list it is that list, step by step.
C13_DefaultsOrVerbatim ==
    /\ \A c \in JsonCases :
          c.text = ClassStepsText =>
             stepsConfig = IF c.is = "list" THEN c.list ELSE ClassDefaults
    /\ \A list \in StepLists :
          ClassStepsText = Encode(list) => stepsConfig = list

\* C13 witness: the configured text is a list cut off after a comma, and
\* the tour runs on the built-in steps of the visitor's class.
C13_Witness ==
    /\ ClassStepsText = <<Tok("["), ObjTok(TwoSteps[1]), Tok(",")>>
    /\ stepsConfig = ClassDefaults
    /\ runState = "Running"
    /\ Len(stepConfigs) >= 3

\* the non-empty strings a map holds under a tag
TextsUnder(es, tag) ==
    {es[k].text : k \in {j \in 1..Len(es) : es[j].tag = tag /\ es[j].text # ""}}

\* the non-empty strings of a map that come before every other non-empty one
FirstTexts(es) ==
    {es[k].text : k \in {j \in 1..Len(es) :
                             /\ es[j].text # ""
                             /\ \A i \in 1..(j - 1) : es[i].text = ""}}

\* the resolution order over a map: the entries under the wanted tag, then
\* those under "en", then the first non-empty entry, else the empty string
ResolvesTo(es, wanted, result) ==
    IF TextsUnder(es, wanted) # {} THEN result \in TextsUnder(es, wanted)
    ELSE IF TextsUnder(es, <<"en">>) # {} THEN result \in TextsUnder(es, <<"en">>)
    ELSE IF FirstTexts(es) # {} THEN result \in FirstTexts(es)
    ELSE result = ""

\* an overlay built from one authored step whose title is a language map
MapTitleShown ==
    /\ Len(stepsConfig) = 1
    /\ stepsConfig[1].title.kind = "object"
    /\ Len(stepConfigs) = 3

\* C14 as stated: the map is searched under the visitor's whole language
\* tag, two or five letters, before the fallback "en".
C14_Original ==
    MapTitleShown =>
        ResolvesTo(stepsConfig[1].title.entries,
                   IF locale = <<>> THEN <<"en">> ELSE locale,
                   stepConfigs[2].title)

\* C14: the title shown for a language map is the non-empty entry under the
\* part of the visitor's locale before its first hyphen ("en" when there is
\* no locale); otherwise the non-empty entry under "en"; otherwise the first
\* non-empty entry in the map's order; and the empty string only when the
\* map has no non-empty entry.
C14_PrimaryLanguageThenFallback ==
    MapTitleShown =>
        ResolvesTo(stepsConfig[1].title.entries,
                   IF locale = <<>> THEN <<"en">> ELSE <<Head(locale)>>,
                   stepConfigs[2].title)

\* C14 witness: { fr: "Bonjour" } under language "de" is shown as "Bonjour"
C14_Witness ==
    /\ MapTitleShown
    /\ locale = <<"de">>
    /\ stepsConfig[1].title = TextMap(<<Entry(<<"fr">>, "Bonjour")>>)
    /\ stepConfigs[2].title = "Bonjour"

\* the device rule: no device or "all" always, "mobile" below the
\* breakpoint, "desktop" from the breakpoint on
DeviceAdmits(step) ==
    \/ step.device = None
    \/ step.device = Some("all")
    \/ step.device = Some("mobile") /\ innerWidth < MobileBreakpoint
    \/ step.device = Some("desktop") /\ innerWidth >= MobileBreakpoint

AdmittedSteps == SelectSeq(stepsConfig, DeviceAdmits)

\* drive variant: the admitted steps that are centered or find their element
AdmittedAndFound ==
    SelectSeq(AdmittedSteps,
              LAMBDA step : \/ step.selector = <<>>
                            \/ findElement(step.selector, Matching(sidebarOpen)) # None)

\* the built sequence without its welcome and done steps
AuthoredPart == SubSeq(stepConfigs, 2, Len(stepConfigs) - 1)

\* C15: in the revisions that filter by device, the built step sequence holds
\* between welcome and done exactly the configured steps the device rule
\* admits, in their order ("mobile" iff width < 768, "desktop" iff width
\* >= 768, "all" or no device always; the drive revision additionally leaves
\* out anchored steps whose element is missing); indices and the total
\* shown in the progress text count only the steps of the built sequence.
C15_DeviceFiltering ==
    (variant \in {"highlight", "drive"} /\ stepConfigs # <<>>) =>
        /\ variant = "highlight" =>
              /\ Len(AuthoredPart) = Len(AdmittedSteps)
              /\ \A k \in 1..Len(AdmittedSteps) :
                    /\ AuthoredPart[k].selector = AdmittedSteps[k].selector
                    /\ AuthoredPart[k].title
                          = getLocalizedText(AdmittedSteps[k].title, locale)
        /\ variant = "drive" =>
              /\ Len(AuthoredPart) = Len(AdmittedAndFound)
              /\ \A k \in 1..Len(AdmittedAndFound) :
                    AuthoredPart[k].title
                       = getLocalizedText(AdmittedAndFound[k].title, locale)
        /\ shown # None =>
              /\ TheVal(shown).index \in 0..(Len(stepConfigs) - 1)
              /\ TheVal(shown).progress # None =>
                    TheVal(TheVal(shown).progress)
                       = <<TheVal(shown).index + 1, Len(stepConfigs)>>

\* C15 witness: at width 768 a list of a mobile step and a desktop step is
\* built as welcome, the desktop step, done, and the desktop step is shown
\* as step 2 of 3.
C15_Witness ==
    /\ variant = "highlight"
    /\ innerWidth = MobileBreakpoint
    /\ Len(stepsConfig) = 2
    /\ stepsConfig[1].device = Some("mobile")
    /\ stepsConfig[2].device = Some("desktop")
    /\ Len(stepConfigs) = 3
    /\ stepConfigs[2].selector = stepsConfig[2].selector
    /\ shown # None
    /\ TheVal(shown).index = 1
    /\ TheVal(shown).element # None

\* the bookend texts the author configured for the visitor's class
WelcomeLeftBlank ==
    IF currentUser = None
    THEN settings.welcome_title_anonymous = ""
         /\ settings.welcome_description_anonymous = ""
    ELSE settings.welcome_title_logged_in = ""
         /\ settings.welcome_description_logged_in = ""

DoneLeftBlank ==
    IF currentUser = None
    THEN settings.done_title_anonymous = ""
         /\ settings.done_description_anonymous = ""
    ELSE settings.done_title_logged_in = ""
         /\ settings.done_description_logged_in = ""

\* C16: in the revision whose bookend texts are settings, a running tour
\* holds the welcome step unless the author left the welcome title and
\* description blank, and the done step unless the done title and
\* description were left blank; the rest of the sequence is the authored
\* steps that were built.
C16_BlankBookendOmitted ==
    (variant = "local" /\ runState = "Running") =>
        Len(stepConfigs)
           = Len(resolvedStepsLocal(stepsConfig, Matching(sidebarOpen)))
             + (IF WelcomeLeftBlank THEN 0 ELSE 1)
             + (IF DoneLeftBlank THEN 0 ELSE 1)

\* C17: while the overlay library is not loaded, the start callback leaves
\* the sequence and the completion flags as they were (nothing is rendered,
\* nothing is recorded) and leaves tourTriggered set; and once a start
\* callback has run, no step of the same page load schedules another one.
C17_NoLibraryNoRetry ==
    [][ ~driverLoaded =>
          /\ startsFired' = startsFired + 1 =>
                /\ UNCHANGED <<seqVars, cookies>>
                /\ driverObj' = "null" /\ runState' = "Idle"
                /\ tourTriggered'
          /\ (startsFired > 0 /\ startsFired' >= startsFired) =>
                startsScheduled' = startsScheduled ]_vars

\* C17 witness: the start callback has run without the library, the visitor
\* is on a landing page, nothing is shown and nothing is recorded.
C17_Witness ==
    /\ ~driverLoaded
    /\ startsFired = 1
    /\ startsScheduled = 1
    /\ tourTriggered
    /\ isHomePage(url)
    /\ driverObj = "null"
    /\ runState = "Idle"
    /\ cookies = [k \in StorageKeys |-> NoCookie]

\* the store of the loaded revision cannot be read or written
StoreUnavailable ==
    IF variant = "local" THEN storeThrows ELSE ~cookiesEnabled

\* the gate but for the completion flag: enabled, and within the trust ceiling
GateButForFlag ==
    /\ settings.tour_enabled # Some(FALSE)
    /\ \/ currentUser = None
       \/ trustLevelOf(TheVal(currentUser)) <= themeSettings.target_trust_level

\* C18: while the completion store is unavailable, no exception leaves the
\* navigation handler or an overlay callback; the flag reads as not
\* completed, so the first landing-page navigation of a page load that
\* passes the rest of the gate still schedules the tour; and no step changes
\* a stored flag, so ending a run records nothing.
C18_StoreFailureCaught ==
    /\ [](~uncaught)
    /\ [][ StoreUnavailable =>
            /\ cookies' = cookies
            /\ ( /\ url' # url \/ startsScheduled' # startsScheduled
                 /\ ~tourTriggered
                 /\ isHomePage(url')
                 /\ GateButForFlag ) => tourTriggered' ]_vars

\* C18 witness: with localStorage raising on every access, the tour was
\* offered and run to its end, nothing was recorded and nothing escaped.
C18_Witness ==
    /\ variant = "local"
    /\ storeThrows
    /\ runState \in {"Finished", "Aborted"}
    /\ cookies = [k \in StorageKeys |-> NoCookie]
    /\ ~uncaught

\* C19: once a start is scheduled, the delay handed to the timer is 1500
\* when the configured delay is absent, zero or negative, and the
\* configured value when that is positive.
C19_DelayDefault ==
    startsScheduled > 0 =>
        startDelay = Some(IF settings.tour_delay_ms = None
                             \/ TheVal(settings.tour_delay_ms) <= 0
                          THEN DefaultDelayMs
                          ELSE TheVal(settings.tour_delay_ms))

\* the elements of a document that match one alternative
ElementsMatching(alt, doc) == {e \in 1..Len(doc) : alt \in doc[e]}

\* the earliest alternative of the list that matches anything, and the
\* first element it matches; None when no alternative matches
FirstAlternativeMatch(selector, doc) ==
    LET live == {k \in 1..Len(selector) : ElementsMatching(selector[k], doc) # {}}
    IN  IF live = {} THEN None
        ELSE LET k == CHOOSE i \in live : \A j \in live : i <= j
                 es == ElementsMatching(selector[k], doc)
             IN  Some(CHOOSE e \in es : \A f \in es : e <= f)

\* C20: the element a step is anchored to is the one matched by the first
\* alternative of its selector, in list order, that matches anything,
\* wherever the matched elements sit in the document; a step none of whose
\* alternatives matches is left out (drive revision) or skipped (highlight
\* revision), and an empty selector finds nothing.
C20_FirstAlternativeInListOrder ==
    /\ findElement(<<>>, Matching(sidebarOpen)) = None
    /\ ( /\ variant = "drive"
         /\ stepConfigs # <<>>
         /\ Len(stepsConfig) = 1
         /\ DeviceAdmits(stepsConfig[1])
         /\ stepsConfig[1].selector # <<>> ) =>
            LET found == FirstAlternativeMatch(stepsConfig[1].selector,
                                               Matching(sidebarOpen))
            IN  IF found = None THEN Len(stepConfigs) = 2
                ELSE Len(stepConfigs) = 3 /\ stepConfigs[2].element = found
    /\ ( variant = "highlight" /\ stepConfigs # <<>> ) =>
          /\ \A i \in skipped :
                FirstAlternativeMatch(stepConfigs[i + 1].selector,
                                      Matching(sidebarOpen)) = None
          /\ ( shown # None
               /\ ~stepConfigs[TheVal(shown).index + 1].isCentered ) =>
                TheVal(shown).element
                   = FirstAlternativeMatch(
                        stepConfigs[TheVal(shown).index + 1].selector,
                        Matching(sidebarOpen))

\* C20 witness: the selector "b, a" on a document whose first element
\* matches "a" and whose second matches "b" anchors the step to the second.
C20_Witness ==
    /\ variant = "drive"
    /\ dom = <<{"a"}, {"b"}>>
    /\ Len(stepsConfig) = 1
    /\ stepsConfig[1].selector = <<"b", "a">>
    /\ Len(stepConfigs) = 3
    /\ stepConfigs[2].element = Some(2)

\* C21: while a tour runs the current step index is one of the sequence;
\* showStep asked for an index outside the sequence changes nothing; the
\* index changes only in a next or previous request made on the displayed
\* step, or by a deferred display skipping forward; and from the displayed
\* step at index 0 no previous request is made: the displayed step stays as
\* it is until a next request or the end of the run.
C21_IndexStaysInRange ==
    /\ [](runState = "Running" =>
             currentStepIndex \in 0..(Len(stepConfigs) - 1))
    /\ [](/\ showStep(stepConfigs, 0 - 1, SeqState) = SeqState
          /\ showStep(stepConfigs, Len(stepConfigs), SeqState) = SeqState)
    /\ [][ (runState = "Running" /\ runState' = "Running"
            /\ currentStepIndex' # currentStepIndex) =>
              \/ /\ driverObj = "live"
                 /\ reqDir' \in {"next", "prev"}
                 /\ reqFrom' = Some(TheVal(shown).index)
              \/ /\ settleTimers # {}
                 /\ currentStepIndex' > currentStepIndex
                 /\ currentStepIndex \in skipped' ]_vars
    /\ [][ (shown # None /\ TheVal(shown).index = 0) =>
              /\ ~(reqDir' = "prev" /\ reqFrom' = Some(0))
              /\ \/ shown' = shown /\ currentStepIndex' = currentStepIndex
                 \/ reqDir' = "next" /\ reqFrom' = Some(0)
                 \/ runState' # "Running" ]_vars

\* C21 witness: a previous request has brought the run back to the step at
\* index 0, which is displayed.
C21_Witness ==
    /\ variant = "highlight"
    /\ runState = "Running"
    /\ reqDir = "prev"
    /\ shown # None
    /\ TheVal(shown).index = 0
    /\ currentStepIndex = 0

\* C22: at no time is more than one overlay instance up: whenever a step is
\* rendered the instance rendered before it has been destroyed, exactly one
\* instance is up while the sequencer holds a live overlay, and none is up
\* while it holds none (before the first step, during a settle interval,
\* after the run has ended).
C22_OneOverlayAtATime ==
    /\ overlays \in {0, 1}
    /\ overlays = 1 <=> driverObj = "live"
    /\ driverObj = "live" <=> shown # None

\* C22 witness: a later step of the run is rendered, reached by a next
\* request that skipped a step, and it is the only overlay up.
C22_Witness ==
    /\ variant = "highlight"
    /\ reqDir = "next"
    /\ skipped # {}
    /\ driverObj = "live"
    /\ TheVal(shown).index >= 2
    /\ overlays = 1

\* the index of the displayed step, and the last index of the sequence
ShownIndex == TheVal(shown).index
LastIndex == Len(stepConfigs) - 1

\* C23: the displayed step offers the previous button iff its index is not
\* 0 and labels its next button as done iff its index is the last; a run
\* finishes only by a step taken on the displayed last step, from which the
\* index is never advanced; and a step that advances the index from any
\* other displayed step is a next request that leaves the run running.
C23_ButtonsByPosition ==
    /\ [](shown # None =>
            /\ ("previous" \in TheVal(shown).showButtons) <=> ShownIndex # 0
            /\ "next" \in TheVal(shown).showButtons
            /\ (TheVal(shown).nextBtnText = "done_button") <=> ShownIndex = LastIndex
            /\ (TheVal(shown).nextBtnText = "next_button") <=> ShownIndex # LastIndex)
    /\ [][ shown # None =>
            /\ runState' = "Finished" => ShownIndex = LastIndex
            /\ ShownIndex = LastIndex =>
                  \/ shown' = shown
                  \/ runState' \in {"Finished", "Aborted", "Idle"}
                  \/ reqDir' = "prev" /\ reqFrom' = Some(ShownIndex)
            /\ (ShownIndex # LastIndex /\ currentStepIndex' > ShownIndex) =>
                  /\ runState' = "Running"
                  /\ reqDir' = "next" /\ reqFrom' = Some(ShownIndex) ]_vars

\* C23 witness: the run was finished from the displayed last step
C23_Witness ==
    /\ runState = "Finished"
    /\ reqDir = "next"
    /\ currentStepIndex = LastIndex
    /\ LastIndex >= 2
    /\ shown = None

\* the element the step at index i resolves to on the page as it is now
ElementNow(i) == findElement(stepConfigs[i + 1].selector, Matching(sidebarOpen))

\* C24: (highlight sequencer) a step marked openSidebar is first given a
\* settle timer: the step that makes it current tries the panel toggle (the
\* panel is open afterwards iff it was open or a toggle is present), renders
\* nothing and resolves nothing, with or without a toggle; such a step is
\* rendered only by its expiring settle timer; and the expiring timer
\* renders the step on its element when its selector finds one then, and
\* otherwise skips forward.
C24_RevealThenSettleThenResolve ==
    [][ variant = "highlight" =>
          /\ \A i \in settleTimers' \ settleTimers :
                /\ stepConfigs[i + 1].openSidebar
                /\ currentStepIndex' = i
                /\ shown' = None
                /\ i \notin skipped'
                /\ sidebarOpen' = (sidebarOpen \/ togglePresent)
          /\ ( /\ shown' # None
               /\ shown' # shown
               /\ stepConfigs'[TheVal(shown').index + 1].openSidebar ) =>
                TheVal(shown').index \in settleTimers
          /\ \A i \in settleTimers \ settleTimers' :
                runState' = "Running" =>
                   IF ElementNow(i) # None
                   THEN /\ shown' # None
                        /\ TheVal(shown').index = i
                        /\ TheVal(shown').element = ElementNow(i)
                   ELSE /\ i \in skipped'
                        /\ currentStepIndex' > i ]_vars

\* C24 witness: no panel toggle is on the page, the step that asks for the
\* panel waited for its settle timer all the same, and was then rendered on
\* its element, which is on the page itself.
C24_Witness ==
    /\ variant = "highlight"
    /\ ~togglePresent
    /\ ~sidebarOpen
    /\ shown # None
    /\ stepConfigs[TheVal(shown).index + 1].openSidebar
    /\ TheVal(shown).element # None
    /\ settleTimers = {}

\* the index the current request asked to show
RequestedIndex ==
    IF reqDir = "next" THEN TheVal(reqFrom) + 1
    ELSE IF reqDir = "prev" THEN TheVal(reqFrom) - 1
    ELSE 0

\* C25: (highlight sequencer) within one request to show step i the indices
\* skipped are the consecutive ones from i up to just before the current
\* index, so there are at most steps.length - 1 - i of them and none is
\* tried twice; an expiring settle timer never lowers the index and raises
\* it whenever it skips; and a pending settle timer is always followed by a
\* rendered step of index >= i (or by the end of the page load).
C25_SkipForwardTerminates ==
    /\ []((variant = "highlight" /\ runState = "Running") =>
             /\ currentStepIndex >= RequestedIndex
             /\ skipped = RequestedIndex..(currentStepIndex - 1)
             /\ Cardinality(skipped) <= LastIndex - RequestedIndex)
    /\ [][ (settleTimers # {} /\ runState' = "Running") =>
              /\ currentStepIndex' >= currentStepIndex
              /\ skipped \subseteq skipped'
              /\ skipped' # skipped => currentStepIndex' > currentStepIndex ]_vars
    /\ (settleTimers # {})
          ~> \/ shown # None /\ ShownIndex >= RequestedIndex
             \/ runState = "Idle"

\* C25 witness: a request skipped every authored step and rendered the last
\* step of the sequence.
C25_Witness ==
    /\ variant = "highlight"
    /\ runState = "Running"
    /\ Cardinality(skipped) = MaxSteps
    /\ shown # None
    /\ ShownIndex = LastIndex
    /\ ShownIndex > RequestedIndex

\* C26: once a run is Finished or Aborted it stays so until the page is
\* loaded again: no overlay is up and no timer is pending in such a state,
\* and every step from it (a navigation event, any timer, any callback)
\* leaves the run state, the sequencer and the number of scheduled and fired
\* starts as they are, unless it is the reload that ends the page load.
C26_EndedRunsStayEnded ==
    /\ [](runState \in {"Finished", "Aborted"} =>
             /\ shown = None /\ driverObj = "destroyed" /\ overlays = 0
             /\ settleTimers = {}
             /\ startsFired = startsScheduled
             /\ tourTriggered)
    /\ [][ (runState \in {"Finished", "Aborted"}) =>
              \/ /\ runState' = runState
                 /\ UNCHANGED <<stepConfigs, currentStepIndex, driverObj, shown,
                                settleTimers, overlays, startsScheduled,
                                startsFired, tourTriggered, cookies>>
              \/ /\ runState' = "Idle"
                 /\ url' = <<>> /\ ~tourTriggered' /\ startsScheduled' = 0 ]_vars

\* C26 witness: a run was finished while the browser refused the flag, so
\* the gate would still pass; the visitor is on a landing page and nothing
\* more has been scheduled.
C26_Witness ==
    /\ runState = "Finished"
    /\ ~hasCompletedTour(cookies, isLoggedIn)
    /\ mayShowTour.value
    /\ isHomePage(url)
    /\ startsScheduled = 1
    /\ startsFired = 1

\* C27: while the triggered flag is false, a step whose route is not on the
\* allow-list or whose gate (enabled, not completed, trust level within the
\* ceiling) does not pass leaves the flag false and schedules nothing; the
\* flag turns true only in a step whose route is on the allow-list and whose
\* gate passes, which schedules one start; and every navigation to an
\* allow-listed route with the gate passing turns it true, whatever was
\* rejected before.
C27_RejectionLeavesFlagFalse ==
    [][ ~tourTriggered =>
          /\ ~(url' \in LandingAllowList /\ GateOpen) =>
                ~tourTriggered' /\ startsScheduled' = startsScheduled
          /\ tourTriggered' =>
                /\ url' \in LandingAllowList
                /\ GateOpen
                /\ startsScheduled' = startsScheduled + 1
          /\ (url' # url /\ url' \in LandingAllowList /\ GateOpen) =>
                tourTriggered' ]_vars

\* C27 witness: the last navigation went to a landing page and was rejected
\* by the gate; the flag is false and nothing is scheduled.
C27_Witness ==
    /\ url \in LandingAllowList
    /\ ~GateOpen
    /\ ~tourTriggered
    /\ startsScheduled = 0

\* the storage key of the class the visitor is not in
OtherKey == IF currentUser = None THEN STORAGE_KEY_LOGGED_IN ELSE STORAGE_KEY_ANON

\* C28: a step changes no stored flag other than that of the visitor's own
\* class, which it can only set to "true"; the gate's answer does not
\* depend on the other class's flag; and, the flag being kept across logging
\* in and out, a landing-page navigation of a visitor whose own flag is not
\* set, with the tour enabled and the trust level within the ceiling,
\* schedules the tour also when the other class's flag is set.
C28_FlagsArePerClass ==
    /\ [](\A v \in {NoCookie, "true"} :
             shouldShowTour(currentUser, themeSettings, isLoggedIn,
                            [cookies EXCEPT ![OtherKey] = v])
                = shouldShowTour(currentUser, themeSettings, isLoggedIn, cookies))
    /\ [][ /\ cookies'[OtherKey] = cookies[OtherKey]
           /\ cookies'[ClassKey] \in {cookies[ClassKey], "true"}
           /\ ( /\ ~tourTriggered
                /\ url' # url
                /\ url' \in LandingAllowList
                /\ GateOpen ) => tourTriggered' ]_vars

\* C28 witness: the anonymous tour was completed, the visitor logged in, and
\* the authenticated tour is running.
C28_Witness ==
    /\ currentUser # None
    /\ cookies[STORAGE_KEY_ANON] = "true"
    /\ cookies[STORAGE_KEY_LOGGED_IN] # "true"
    /\ tourTriggered
    /\ runState = "Running"

\* C29: (highlight sequencer) while a settle timer is pending it is the only
\* one, it is that of the current index, the run is running and no overlay
\* is up, so that no overlay callback can run; and the pending timer stays as
\* it is until it expires, when exactly its index is rendered or skipped
\* (or until the page is loaded again).
C29_PendingSettleIsAlone ==
    /\ [](settleTimers # {} =>
             /\ settleTimers = {currentStepIndex}
             /\ runState = "Running"
             /\ driverObj # "live" /\ shown = None /\ overlays = 0)
    /\ [][ settleTimers # {} =>
              \/ UNCHANGED <<settleTimers, currentStepIndex, stepConfigs, driverObj,
                             shown, runState, skipped, cookies>>
              \/ /\ currentStepIndex \notin settleTimers'
                 /\ runState' = "Running"
                 /\ \/ shown' # None /\ TheVal(shown').index = currentStepIndex
                    \/ currentStepIndex \in skipped'
              \/ runState' = "Idle" /\ settleTimers' = {} ]_vars

\* C29 witness: a previous request went back to a step that asks for the
\* side panel; its settle timer is pending and nothing is on screen.
C29_Witness ==
    /\ variant = "highlight"
    /\ reqDir = "prev"
    /\ settleTimers = {currentStepIndex}
    /\ stepConfigs[currentStepIndex + 1].openSidebar
    /\ shown = None
    /\ runState = "Running"

\* C30: within one page load, a step clicks the side panel toggle at most
\* once, and only while it reveals the panel for a step (it starts that
\* step's settle timer), a toggle is on the page and the panel is not
\* visible; a reveal that finds the panel visible clicks nothing; and no step
\* takes the panel from visible to hidden.
C30_RevealNeverClosesPanel ==
    [][ url' # <<>> =>
          /\ toggleClicks' \in {toggleClicks, toggleClicks + 1}
          /\ toggleClicks' # toggleClicks =>
                /\ settleTimers' \ settleTimers # {}
                /\ togglePresent
                /\ ~sidebarOpen
                /\ sidebarOpen'
          /\ (settleTimers' \ settleTimers # {} /\ sidebarOpen) =>
                toggleClicks' = toggleClicks
          /\ sidebarOpen => sidebarOpen' ]_vars

\* C30 witness: two steps in a row ask for the panel and several toggle
\* selectors match; the first reveal clicked once and opened the panel, the
\* second reveal found it visible and clicked nothing.
C30_Witness ==
    /\ variant = "highlight"
    /\ toggles = MaxToggles
    /\ currentStepIndex >= 1
    /\ stepConfigs[currentStepIndex].openSidebar
    /\ stepConfigs[currentStepIndex + 1].openSidebar
    /\ reqDir = "next"
    /\ reqFrom = Some(currentStepIndex - 1)
    /\ settleTimers = {currentStepIndex}
    /\ sidebarOpen
    /\ toggleClicks = 1

====
